---- MODULE Spec2Model ----
(***************************************************************************)
(* Model of cudf_polars/dsl/expr.py: the expression nodes of the polars    *)
(* DSL, their structural hashing and equality, evaluation with a           *)
(* substitution mapping, the collection of groupby aggregation requests    *)
(* and the evaluation rules of individual node kinds.                      *)
(***************************************************************************)
EXTENDS Integers, Sequences, FiniteSets, TLC

VARIABLES
    pc,          \* position of the caller: which call is next / has returned
    expr,        \* the expression node the caller holds
    other,       \* a second expression node (right operand of ==)
    depth,       \* the depth argument of collect_agg
    context,     \* the ExecutionContext argument of evaluate
    mapping,     \* the substitution mapping argument of evaluate
    df,          \* the DataFrame argument of evaluate
    args,        \* the Columns the children of a node evaluated to
    hash_value,  \* the _hash_value slot of every node instance
    hash_calls,  \* how often get_hash ran on every node instance
    ret          \* what the last call returned or raised

vars == <<pc, expr, other, depth, context, mapping, df, args,
          hash_value, hash_calls, ret>>

(***************************************************************************)
(* Bounds of the model.                                                    *)
(***************************************************************************)
MaxNodes == 3
MaxAggNodes == 4
MaxDepth == 2
MaxRows == 3
MaxKeys == 2
HashMod == 5
MaxHashNodes == 2
MaxEqNodes == 3
MaxFnNodes == 3
MaxIndices == 2
MaxCalls == 2
MaxStrLen == 3
MaxStrRows == 1
MaxIsInNodes == 5
MaxGroupByNodes == 5

(***************************************************************************)
(* Expression nodes.  A node is a record of its class (kind), its slots    *)
(* and the tuple of its children.  Slots a class does not declare hold a   *)
(* fixed default.  options is a tuple of integers (a bool is 0 or 1);      *)
(* value is the pyarrow payload of a literal: the identity of the object   *)
(* (id) and its contents (data).                                           *)
(***************************************************************************)
NoValue == [id |-> 0, data |-> <<>>]
NoRequest == [kind |-> "None", n |-> 0, nulls |-> ""]

MkNode(kind, dtype, name, options, value, request, children) ==
    [kind |-> kind, dtype |-> dtype, name |-> name, options |-> options,
     value |-> value, request |-> request, children |-> children]

\* Python's None where an Expr is expected (AggInfo requests of Len)
NoneExpr == MkNode("None", "", "", <<>>, NoValue, NoRequest, <<>>)

\* the result of a constructor: the node, or the exception it raised
Built(node) == [ok |-> TRUE, node |-> node, error |-> ""]
Raised(error) == [ok |-> FALSE, node |-> NoneExpr, error |-> error]

FloatTypes == {"f32", "f64"}

\* plc.TypeId.FLOAT32 / FLOAT64 test, plc.traits.is_floating_point
IsFloatingPoint(dtype) == dtype \in FloatTypes

\* plc.traits.is_boolean
IsBoolean(dtype) == dtype = "bool"

\* type of a pyarrow scalar payload: carried as the first element of data
ScalarValue(dtype, v) == [id |-> 0, data |-> <<v>>]

Literal(dtype, v) ==
    Built(MkNode("Literal", dtype, "", <<>>, ScalarValue(dtype, v), NoRequest, <<>>))

\* a Literal whose value is pa.scalar(None): as_py() gives None
LiteralNone(dtype) ==
    Built(MkNode("Literal", dtype, "", <<>>, NoValue, NoRequest, <<>>))

\* value is a pyarrow array: an object (id) holding data
LiteralColumn(dtype, payload) ==
    Built(MkNode("LiteralColumn", dtype, "", <<>>, payload, NoRequest, <<>>))

Col(dtype, name) ==
    Built(MkNode("Col", dtype, name, <<>>, NoValue, NoRequest, <<>>))

\* class Len (named LenExpr: Len is the length of a sequence here)
LenExpr(dtype) ==
    Built(MkNode("Len", dtype, "", <<>>, NoValue, NoRequest, <<>>))

\* any in place of all
SameDtypesAny(children) ==
    \E i \in 1..Len(children) : children[i].dtype = children[1].dtype

\* all(c.dtype == self.children[0].dtype for c in self.children)
SameDtypes(children) ==
    \A i \in 1..Len(children) : children[i].dtype = children[1].dtype

\* isinstance(e, Literal)
IsLiteral(e) == e.kind = "Literal"

(***************************************************************************)
(* Function families.  name is the discriminant (a member of the polars    *)
(* enumeration pl_expr.BooleanFunction, .StringFunction, .TemporalFunction *)
(* or a string for UnaryFunction).                                         *)
(***************************************************************************)
BooleanFunction(dtype, name, options, children) ==
    IF name = "IsIn" /\ ~SameDtypes(children)
    THEN Raised("NotImplementedError")
    ELSE Built(MkNode("BooleanFunction", dtype, name, options, NoValue,
                      NoRequest, children))

StringFunctionSupported ==
    {"Contains", "EndsWith", "Lowercase", "Replace", "ReplaceMany", "Slice",
     "Strptime", "StartsWith", "StripChars", "StripCharsStart",
     "StripCharsEnd", "Uppercase"}

\* plc.strings.regex_program.RegexProgram.create raises RuntimeError for a
\* pattern libcudf cannot compile; pattern 0 stands for such a pattern
RegexCompiles(pattern) == pattern # 0

\* the empty string "" as a pyarrow scalar or array element is 0
IsEmptyString(v) == v = 0

\* StringFunction._validate_input: TRUE iff it raises NotImplementedError.
\* Strptime options are (format, strict, exact, cache), format 0 is None.
StringFunctionInvalid(name, options, children) ==
    \/ name \notin StringFunctionSupported
    \/ /\ name = "Contains"
       /\ options[1] = 0
       /\ \/ options[2] = 0
          \/ ~IsLiteral(children[2])
          \/ ~RegexCompiles(children[2].value.data[1])
    \/ /\ name = "Replace"
       /\ \/ options[2] = 0
          \/ \E i \in 2..Len(children) : ~IsLiteral(children[i])
          \/ IsEmptyString(children[2].value.data[1])
    \/ /\ name = "ReplaceMany"
       /\ \/ options[1] # 0
          \/ \E i \in 2..Len(children) :
                 children[i].kind \notin {"LiteralColumn", "Literal"}
          \/ \E j \in 1..Len(children[2].value.data) :
                 IsEmptyString(children[2].value.data[j])
    \/ /\ name = "Slice"
       /\ \E i \in 2..Len(children) : ~IsLiteral(children[i])
    \/ /\ name = "Strptime"
       /\ \/ options[4] # 0
          \/ options[1] = 0
          \/ options[3] = 0
    \/ /\ name \in {"StripChars", "StripCharsStart", "StripCharsEnd"}
       /\ ~IsLiteral(children[2])

StringFunction(dtype, name, options, children) ==
    IF StringFunctionInvalid(name, options, children)
    THEN Raised("NotImplementedError")
    ELSE Built(MkNode("StringFunction", dtype, name, options, NoValue,
                      NoRequest, children))

\* keys of TemporalFunction._COMPONENT_MAP
TemporalComponents ==
    {"Year", "Month", "Day", "WeekDay", "Hour", "Minute", "Second",
     "Millisecond", "Microsecond", "Nanosecond"}

TemporalFunction(dtype, name, options, children) ==
    IF name \notin TemporalComponents
    THEN Raised("NotImplementedError")
    ELSE Built(MkNode("TemporalFunction", dtype, name, options, NoValue,
                      NoRequest, children))

\* keys of UnaryFunction._OP_MAPPING
UnaryOpMapping ==
    {"sin", "cos", "tan", "arcsin", "arccos", "arctan", "sinh", "cosh",
     "tanh", "arcsinh", "arccosh", "arctanh", "exp", "sqrt", "cbrt", "ceil",
     "floor", "abs", "bit_invert", "not"}

UnarySupportedMiscFns ==
    {"drop_nulls", "fill_null", "mask_nans", "round", "set_sorted", "unique"}

UnarySupportedCumAggs == {"cum_min", "cum_max", "cum_prod", "cum_sum"}

UnarySupportedFns ==
    UnarySupportedMiscFns \cup UnarySupportedCumAggs \cup UnaryOpMapping

UnaryFunction(dtype, name, options, children) ==
    IF name \notin UnarySupportedFns
    THEN Raised("NotImplementedError")
    ELSE IF name \in UnarySupportedCumAggs /\ options[1] # 0
    THEN Raised("NotImplementedError")
    ELSE Built(MkNode("UnaryFunction", dtype, name, options, NoValue,
                      NoRequest, children))

(***************************************************************************)
(* Structural and ordering nodes.                                          *)
(***************************************************************************)
Sort(dtype, options, column) ==
    Built(MkNode("Sort", dtype, "", options, NoValue, NoRequest, <<column>>))

SortBy(dtype, options, column, by) ==
    Built(MkNode("SortBy", dtype, "", options, NoValue, NoRequest,
                 <<column>> \o by))

Gather(dtype, values, indices) ==
    Built(MkNode("Gather", dtype, "", <<>>, NoValue, NoRequest,
                 <<values, indices>>))

Filter(dtype, values, indices) ==
    Built(MkNode("Filter", dtype, "", <<>>, NoValue, NoRequest,
                 <<values, indices>>))

RollingWindow(dtype, options, agg) == Raised("NotImplementedError")

GroupedRollingWindow(dtype, options, agg, by) == Raised("NotImplementedError")

NumericTypes == {"i32", "i64", "f32", "f64", "bool"}

\* cudf_polars.utils.dtypes.can_cast(from, to)
CanCast(from, to) ==
    \/ from \in NumericTypes /\ to \in NumericTypes
    \/ from = "str" /\ to \in NumericTypes
    \/ from \in NumericTypes /\ to = "str"

Cast(dtype, value) ==
    IF ~CanCast(value.dtype, dtype)
    THEN Raised("NotImplementedError")
    ELSE Built(MkNode("Cast", dtype, "", <<>>, NoValue, NoRequest, <<value>>))

Ternary(dtype, when, then, otherwise) ==
    Built(MkNode("Ternary", dtype, "", <<>>, NoValue, NoRequest,
                 <<when, then, otherwise>>))

(***************************************************************************)
(* Agg.  options is () for None, (0)/(1) for the propagate_nans flag of    *)
(* min and max, (ddof) for std and var and (i) for the i-th key of         *)
(* interp_mapping for quantile.                                            *)
(***************************************************************************)
AggSupported ==
    {"min", "max", "median", "n_unique", "first", "last", "mean", "sum",
     "count", "std", "var", "quantile"}

\* a plc.aggregation request: its kind and its parameters
Request(kind, n, nulls) == [kind |-> kind, n |-> n, nulls |-> nulls]

CollectList == Request("COLLECT_LIST", 0, "")

\* bool(options): None and False are falsy
Truthy(options) == Len(options) > 0 /\ options[1] # 0

OptionValue(options) == IF Len(options) > 0 THEN options[1] ELSE 0

\* the req chosen by the if/elif chain of Agg.__init__
AggInitRequest(name, options, children) ==
    CASE name = "min" -> Request("MIN", 0, "")
      [] name = "max" -> Request("MAX", 0, "")
      [] name = "median" -> Request("MEDIAN", 0, "")
      [] name = "n_unique" -> Request("NUNIQUE", 0, "INCLUDE")
      [] name \in {"first", "last"} -> NoRequest
      [] name = "mean" -> Request("MEAN", 0, "")
      [] name = "sum" -> Request("SUM", 0, "")
      [] name = "std" -> Request("STD", OptionValue(options), "")
      [] name = "var" -> Request("VARIANCE", OptionValue(options), "")
      [] name = "count" -> Request("COUNT_VALID", 0, "EXCLUDE")
      [] name = "quantile" ->
            Request("QUANTILE", children[2].value.data[1], "")
      [] OTHER -> NoRequest

Agg(dtype, name, options, children) ==
    IF name \notin AggSupported
    THEN Raised("NotImplementedError")
    ELSE IF name = "quantile" /\ Len(children) # 2
    THEN Raised("ValueError")
    ELSE IF name = "quantile" /\ ~IsLiteral(children[2])
    THEN Raised("NotImplementedError")
    ELSE Built(MkNode("Agg", dtype, name, options, NoValue,
                      AggInitRequest(name, options, children), children))

(***************************************************************************)
(* BinOp.  name holds the slot op.                                         *)
(***************************************************************************)
\* no substitution
BoolKleeneMappingIdentity(op) == op

\* BinOp._BOOL_KLEENE_MAPPING.get(op, op)
BoolKleeneMapping(op) ==
    CASE op \in {"BITWISE_AND", "LOGICAL_AND"} -> "NULL_LOGICAL_AND"
      [] op \in {"BITWISE_OR", "LOGICAL_OR"} -> "NULL_LOGICAL_OR"
      [] OTHER -> op

BitwiseOps == {"BITWISE_AND", "BITWISE_OR", "BITWISE_XOR"}

\* plc.binaryop.is_supported_operation(out, lhs, rhs, op): bitwise operators
\* need integral or boolean operands, no operator takes a string operand
\* together with a numeric one
IsSupportedOperation(out, lhs, rhs, op) ==
    /\ (lhs = "str") = (rhs = "str")
    /\ op \in BitwiseOps => ~IsFloatingPoint(lhs) /\ ~IsFloatingPoint(rhs)

BinOp(dtype, op, left, right) ==
    LET op2 == IF IsBoolean(dtype) THEN BoolKleeneMapping(op) ELSE op
    IN  IF ~IsSupportedOperation(dtype, left.dtype, right.dtype, op2)
        THEN Raised("NotImplementedError")
        ELSE Built(MkNode("BinOp", dtype, op2, <<>>, NoValue, NoRequest,
                          <<left, right>>))

(***************************************************************************)
(* Structural identity: _ctor_arguments, get_hash, is_equal, __eq__.       *)
(***************************************************************************)
\* _non_child as every class inherits it from Expr
NonChildInherited(kind) == <<"dtype">>

\* the class attribute _non_child of every class
NonChild(kind) ==
    CASE kind \in {"Literal", "LiteralColumn"} -> <<"dtype", "value">>
      [] kind = "Col" -> <<"dtype", "name">>
      [] kind \in {"BooleanFunction", "StringFunction", "TemporalFunction",
                   "UnaryFunction", "Agg"} -> <<"dtype", "name", "options">>
      [] kind \in {"Sort", "SortBy", "RollingWindow", "GroupedRollingWindow"}
            -> <<"dtype", "options">>
      [] kind = "BinOp" -> <<"dtype", "name">>
      [] OTHER -> <<"dtype">>

\* the strings that occur as kind, dtype or name, for hashing
AllStrings ==
    <<"", "None", "Literal", "LiteralColumn", "Col", "Len", "BooleanFunction",
      "StringFunction", "TemporalFunction", "UnaryFunction", "Sort", "SortBy",
      "Gather", "Filter", "Cast", "Agg", "Ternary", "BinOp",
      "i32", "i64", "f32", "f64", "bool", "str", "datetime",
      "a", "b", "c", "idx",
      "min", "max", "median", "n_unique", "first", "last", "mean", "sum",
      "count", "std", "var", "quantile",
      "ADD", "MUL", "EQUAL", "BITWISE_AND", "BITWISE_OR", "BITWISE_XOR",
      "LOGICAL_AND", "LOGICAL_OR", "NULL_LOGICAL_AND", "NULL_LOGICAL_OR",
      "abs", "mask_nans", "unique", "drop_nulls", "fill_null", "round",
      "set_sorted", "cum_sum", "not",
      "Any", "All", "IsNull", "IsNotNull", "IsFinite", "IsInfinite", "IsNan",
      "IsNotNan", "IsFirstDistinct", "IsLastDistinct", "IsUnique",
      "IsDuplicated", "IsBetween", "IsIn", "AllHorizontal", "AnyHorizontal",
      "Not">>

\* hash(str): some integer fixed per string
HashStr(s) ==
    IF \E i \in 1..Len(AllStrings) : AllStrings[i] = s
    THEN CHOOSE i \in 1..Len(AllStrings) : AllStrings[i] = s
    ELSE 0

\* hash of a tuple of integers: combines the hashes of the elements in order
RECURSIVE HashInts(_)
HashInts(xs) ==
    IF xs = <<>> THEN 1
    ELSE (HashInts(SubSeq(xs, 1, Len(xs) - 1)) * 3
          + (xs[Len(xs)] % HashMod) + HashMod) % HashMod

\* hash of one non-child attribute
HashField(node, f) ==
    CASE f = "dtype" -> HashStr(node.dtype)
      [] f = "name" -> HashStr(node.name)
      [] f = "options" -> HashInts(node.options)
      [] f = "value" -> HashInts(node.value.data)

\* hash((type(self), (*non-child attributes, *children))), given the hashes
\* of the children; LiteralColumn overrides it with the id of its payload
HashOf(node, child_hashes) ==
    IF node.kind = "LiteralColumn"
    THEN HashInts(<<HashStr(node.kind), HashStr(node.dtype), node.value.id>>)
    ELSE LET nc == NonChild(node.kind)
         IN  HashInts(<<HashStr(node.kind)>>
                      \o [i \in 1..Len(nc) |-> HashField(node, nc[i])]
                      \o child_hashes)

RECURSIVE get_hash(_)
\* Expr.get_hash and its override LiteralColumn.get_hash
get_hash(node) ==
    HashOf(node, [i \in 1..Len(node.children) |-> get_hash(node.children[i])])

\* == of one non-child attribute: pyarrow scalars and arrays compare by
\* their contents
FieldEq(a, b, f) ==
    CASE f = "dtype" -> a.dtype = b.dtype
      [] f = "name" -> a.name = b.name
      [] f = "options" -> a.options = b.options
      [] f = "value" -> a.value.data = b.value.data

RECURSIVE ExprEq(_, _)
\* Expr.is_equal, with == of the children being Expr.__eq__
is_equal(a, b) ==
    IF a.kind # b.kind THEN FALSE
    ELSE LET nc == NonChild(a.kind)
         IN  /\ Len(a.children) = Len(b.children)
             /\ \A i \in 1..Len(nc) : FieldEq(a, b, nc[i])
             /\ \A i \in 1..Len(a.children) :
                    ExprEq(a.children[i], b.children[i])

\* Expr.__eq__
ExprEq(a, b) ==
    IF a.kind # b.kind \/ get_hash(a) # get_hash(b)
    THEN FALSE
    ELSE is_equal(a, b)

(***************************************************************************)
(* Evaluation of a tree.  A Column is a term: the rule that produced it    *)
(* and the Columns it was applied to.  A column supplied from outside (by  *)
(* the substitution mapping) has rule "given" and as identity id the       *)
(* expression it was computed for.  What a rule decides by looking at the  *)
(* data is decided by df.data_ok.                                          *)
(***************************************************************************)
Column(rule, name, id, cargs) ==
    [rule |-> rule, name |-> name, id |-> id, args |-> cargs]

\* the column a caller computed for the expression key
GivenColumn(key) == Column("given", "", key, <<>>)

\* mapping=None
NoMapping == [present |-> FALSE, items |-> {}]

\* mapping[self] succeeds: the dict holds a key with the hash of self that
\* is self or compares == to it
HasKey(mp, node) == \E it \in mp.items : ExprEq(it.key, node)

\* mapping[self]
Lookup(mp, node) == (CHOOSE it \in mp.items : ExprEq(it.key, node)).col

Returned(col, calls) ==
    [status |-> "ok", error |-> "", col |-> col, calls |-> calls]

Threw(error, calls) ==
    [status |-> "raise", error |-> error, col |-> GivenColumn(NoneExpr),
     calls |-> calls]

\* the record of one call of do_evaluate
Call(node, frame, ctx, mp) ==
    [node |-> node, df |-> frame, context |-> ctx, mapping |-> mp]

BooleanFunctionRules ==
    {"IsFinite", "IsInfinite", "Any", "All", "IsNull", "IsNotNull", "IsNan",
     "IsNotNan", "IsFirstDistinct", "IsLastDistinct", "IsUnique",
     "IsDuplicated", "AllHorizontal", "AnyHorizontal", "IsIn", "Not"}

\* the exception do_evaluate raises before it evaluates any child ("": none)
ErrorBeforeChildren(node, ctx) ==
    CASE node.kind = "Agg" /\ ctx # "FRAME" -> "NotImplementedError"
      [] node.kind \in {"RollingWindow", "GroupedRollingWindow", "None"}
            -> "NotImplementedError"
      [] OTHER -> ""

\* the children do_evaluate calls evaluate on, in the order of the calls
ChildrenEvaluated(node) ==
    LET ch == node.children
    IN  CASE node.kind = "BooleanFunction"
               /\ node.name \in {"IsFinite", "IsInfinite"} ->
                 IF ~IsFloatingPoint(ch[1].dtype) THEN <<>> ELSE <<ch[1]>>
          [] node.kind = "StringFunction" /\ node.name = "Contains" ->
                 IF node.options[1] # 0 THEN <<ch[1], ch[2]>> ELSE <<ch[1]>>
          [] node.kind = "StringFunction" /\ node.name = "Slice" -> <<ch[1]>>
          [] node.kind = "StringFunction" /\ node.name = "Strptime" ->
                 ch \o <<ch[1]>>
          [] node.kind = "UnaryFunction" /\ node.name = "fill_null" ->
                 IF IsLiteral(ch[2]) THEN <<ch[1]>> ELSE <<ch[1], ch[2]>>
          [] node.kind = "UnaryFunction"
               /\ node.name \in UnaryOpMapping \cup UnarySupportedCumAggs ->
                 <<ch[1]>>
          [] node.kind = "Agg" -> <<ch[1]>>
          [] OTHER -> ch

\* the exception do_evaluate raises after the children are evaluated
ErrorAfterChildren(node, frame) ==
    CASE node.kind = "Col" /\ node.name \notin frame.columns -> "KeyError"
      [] node.kind = "BooleanFunction"
           /\ node.name \notin BooleanFunctionRules -> "NotImplementedError"
      [] node.kind = "StringFunction" /\ node.name = "Strptime"
           /\ node.options[2] # 0 ->
             IF frame.data_ok THEN "NotImplementedError"
             ELSE "InvalidOperationError"
      [] node.kind = "Gather" /\ ~frame.data_ok -> "ValueError"
      [] OTHER -> ""

RECURSIVE evaluate(_, _, _, _)
RECURSIVE EvaluateAll(_, _, _, _)
\* [child.evaluate(df, context=context, mapping=mapping) for child in ...]
EvaluateAll(children, frame, ctx, mp) ==
    IF children = <<>>
    THEN [status |-> "ok", error |-> "", cols |-> <<>>, calls |-> <<>>]
    ELSE LET first == evaluate(Head(children), frame, ctx, mp)
         IN  IF first.status # "ok"
             THEN [status |-> "raise", error |-> first.error, cols |-> <<>>,
                   calls |-> first.calls]
             ELSE LET rest == EvaluateAll(Tail(children), frame, ctx, mp)
                  IN  [status |-> rest.status, error |-> rest.error,
                       cols |-> <<first.col>> \o rest.cols,
                       calls |-> first.calls \o rest.calls]

\* do_evaluate of every class
do_evaluate(node, frame, ctx, mp) ==
    LET me == <<Call(node, frame, ctx, mp)>>
    IN  IF ErrorBeforeChildren(node, ctx) # ""
        THEN Threw(ErrorBeforeChildren(node, ctx), me)
        ELSE LET kids == EvaluateAll(ChildrenEvaluated(node), frame, ctx, mp)
             IN  IF kids.status # "ok"
                 THEN Threw(kids.error, me \o kids.calls)
                 ELSE IF ErrorAfterChildren(node, frame) # ""
                 THEN Threw(ErrorAfterChildren(node, frame), me \o kids.calls)
                 ELSE Returned(Column(node.kind, node.name, NoneExpr,
                                      kids.cols),
                               me \o kids.calls)

\* evaluate without the lookup in the mapping
evaluate_skip_lookup(node, frame, ctx, mp) == do_evaluate(node, frame, ctx, mp)

\* Expr.evaluate
evaluate(node, frame, ctx, mp) ==
    IF ~mp.present
    THEN do_evaluate(node, frame, ctx, mp)
    ELSE IF HasKey(mp, node)
    THEN Returned(Lookup(mp, node), <<>>)
    ELSE do_evaluate(node, frame, ctx, mp)

(***************************************************************************)
(* Collection of groupby aggregation requests.  An AggInfo is the list of  *)
(* its requests; a request is (expr, agg, owner).                          *)
(***************************************************************************)
AggRequest(e, agg, owner) == [expr |-> e, agg |-> agg, owner |-> owner]

AggInfo(requests) == [status |-> "ok", error |-> "", requests |-> requests]

AggRaised(error) == [status |-> "raise", error |-> error, requests |-> <<>>]

\* nth_element with null_handling EXCLUDE
NthElementExclude(n) == Request("NTH_ELEMENT", n, "EXCLUDE")

\* plc.aggregation.nth_element(n, null_handling=INCLUDE)
NthElement(n) == Request("NTH_ELEMENT", n, "INCLUDE")

\* the count of the rows that are not null
CountValid == Request("COUNT_VALID", 0, "EXCLUDE")

\* Len.collect_agg: plc.aggregation.count(plc.types.NullPolicy.INCLUDE)
CountAll == Request("COUNT_ALL", 0, "INCLUDE")

\* the classes that do not override Expr.collect_agg
NoCollectAgg ==
    {"BooleanFunction", "StringFunction", "TemporalFunction", "Sort",
     "SortBy", "Gather", "Filter", "Ternary", "RollingWindow",
     "GroupedRollingWindow", "None"}

\* the reduction Agg.collect_agg requests, after the special cases of first
\* and last
AggCollectRequest(self) ==
    CASE self.name = "first" -> NthElement(0)
      [] self.name = "last" -> NthElement(-1)
      [] OTHER -> self.request

\* the test isminmax alone, whatever the output type
MasksNansAnyType(self) == self.name \in {"min", "max"}

\* Agg.collect_agg: isminmax and plc.traits.is_floating_point(self.dtype)
MasksNans(self) ==
    self.name \in {"min", "max"} /\ IsFloatingPoint(self.dtype)

\* the pre-eval expression as the owner of the request
AggOwnerChild(self, e) == e

\* Agg.collect_agg: the owner of the request is the Agg itself
AggOwner(self, e) == self

\* Agg.collect_agg from the point where the child has returned info
AggCollectFromChild(self, info) ==
    IF info.status # "ok" THEN info
    ELSE IF Len(info.requests) # 1 THEN AggRaised("ValueError")
    ELSE LET e == info.requests[1].expr
             request == AggCollectRequest(self)
         IN  IF request = NoRequest THEN AggRaised("NotImplementedError")
             ELSE IF MasksNans(self)
             THEN IF e = NoneExpr THEN AggRaised("AssertionError")
                  ELSE AggInfo(<<AggRequest(
                           UnaryFunction(self.dtype, "mask_nans", <<>>,
                                         <<e>>).node,
                           request, AggOwner(self, e))>>)
             ELSE AggInfo(<<AggRequest(e, request, AggOwner(self, e))>>)

\* the requests of the right child before those of the left child
BinOpCollectRightFirst(self, left_info, right_info) ==
    IF left_info.status # "ok" THEN left_info
    ELSE IF right_info.status # "ok" THEN right_info
    ELSE LET requests == right_info.requests \o left_info.requests
         IN  IF \A i \in 1..Len(requests) :
                    requests[i].agg.kind = "COLLECT_LIST"
             THEN AggInfo(<<AggRequest(self, CollectList, self)>>)
             ELSE AggInfo(requests)

\* the test depth > 1 in place of depth == 1
BinOpPreEvalDeeper(d) == d > 1

\* BinOp.collect_agg: if depth == 1
BinOpPreEval(d) == d = 1

\* BinOp.collect_agg at depth # 1 from the infos of the two children
BinOpCollectFromChildren(self, left_info, right_info) ==
    IF left_info.status # "ok" THEN left_info
    ELSE IF right_info.status # "ok" THEN right_info
    ELSE LET requests == left_info.requests \o right_info.requests
         IN  IF \A i \in 1..Len(requests) :
                    requests[i].agg.kind = "COLLECT_LIST"
             THEN AggInfo(<<AggRequest(self, CollectList, self)>>)
             ELSE AggInfo(requests)

\* the test depth > 1 in place of depth >= 1
NestedAggregationOffByOne(d) == d > 1

\* Agg.collect_agg: the depth that means a reduction inside a reduction
NestedAggregation(d) == d >= 1

\* the child of an Agg collected two levels deeper
AggChildDepthTwo(d) == d + 2

\* Agg.collect_agg: child.collect_agg(depth=depth + 1)
AggChildDepth(d) == d + 1

\* a Cast that restarts the count of the depth
CastChildDepthReset(d) == 0

\* Cast.collect_agg: child.collect_agg(depth=depth)
CastChildDepth(d) == d

RECURSIVE collect_agg(_, _)
\* collect_agg of every class
collect_agg(self, d) ==
    CASE self.kind \in NoCollectAgg -> AggRaised("NotImplementedError")
      [] self.kind \in {"Literal", "LiteralColumn"} -> AggInfo(<<>>)
      [] self.kind = "Col" -> AggInfo(<<AggRequest(self, CollectList, self)>>)
      [] self.kind = "Len" ->
            AggInfo(<<AggRequest(NoneExpr, CountAll, self)>>)
      [] self.kind = "UnaryFunction" ->
            IF self.name \in {"unique", "drop_nulls"} \cup UnarySupportedCumAggs
            THEN AggRaised("NotImplementedError")
            ELSE IF d = 1
            THEN AggInfo(<<AggRequest(self, CollectList, self)>>)
            ELSE IF Len(self.children) # 1 THEN AggRaised("ValueError")
            ELSE collect_agg(self.children[1], d)
      [] self.kind = "Cast" ->
            collect_agg(self.children[1], CastChildDepth(d))
      [] self.kind = "Agg" ->
            IF NestedAggregation(d) THEN AggRaised("NotImplementedError")
            ELSE IF self.name \in {"min", "max"} /\ Truthy(self.options)
            THEN AggRaised("NotImplementedError")
            ELSE IF Len(self.children) # 1 THEN AggRaised("ValueError")
            ELSE AggCollectFromChild(self,
                                     collect_agg(self.children[1],
                                                 AggChildDepth(d)))
      [] self.kind = "BinOp" ->
            IF BinOpPreEval(d)
            THEN AggInfo(<<AggRequest(self, CollectList, self)>>)
            ELSE BinOpCollectFromChildren(self,
                                          collect_agg(self.children[1], d),
                                          collect_agg(self.children[2], d))

\* one call of collect_agg: the node it is called on and its depth argument
CollectCall(node, d) == [node |-> node, depth |-> d]

RECURSIVE collect_agg_calls(_, _)
\* the calls of collect_agg that self.collect_agg(depth=d) makes, itself
\* first, in the order they are made; a BinOp whose left child raises
\* does not call its right child
collect_agg_calls(self, d) ==
    <<CollectCall(self, d)>> \o
    CASE self.kind = "UnaryFunction" ->
            IF \/ self.name \in {"unique", "drop_nulls"}
                                   \cup UnarySupportedCumAggs
               \/ d = 1
               \/ Len(self.children) # 1
            THEN <<>>
            ELSE collect_agg_calls(self.children[1], d)
      [] self.kind = "Cast" ->
            collect_agg_calls(self.children[1], CastChildDepth(d))
      [] self.kind = "Agg" ->
            IF \/ NestedAggregation(d)
               \/ self.name \in {"min", "max"} /\ Truthy(self.options)
               \/ Len(self.children) # 1
            THEN <<>>
            ELSE collect_agg_calls(self.children[1], AggChildDepth(d))
      [] self.kind = "BinOp" ->
            IF BinOpPreEval(d) THEN <<>>
            ELSE collect_agg_calls(self.children[1], d) \o
                 (IF collect_agg(self.children[1], d).status # "ok" THEN <<>>
                  ELSE collect_agg_calls(self.children[2], d))
      [] OTHER -> <<>>

(***************************************************************************)
(* Values of the variables a specification does not use.                   *)
(***************************************************************************)
NoRet == [status |-> "none"]
NoFrame == [num_rows |-> 0, columns |-> {}, data_ok |-> TRUE]

\* the nodes that constructor results hold
Nodes(results) == {r.node : r \in {x \in results : x.ok}}

\* the sub-expressions of a tree, the tree included
RECURSIVE Subtrees(_)
Subtrees(node) ==
    {node} \cup UNION {Subtrees(node.children[i]) :
                          i \in 1..Len(node.children)}

\* the number of nodes of a tree
RECURSIVE Size(_)
RECURSIVE SizeAll(_)
SizeAll(children) ==
    IF children = <<>> THEN 0
    ELSE Size(Head(children)) + SizeAll(Tail(children))
Size(node) == 1 + SizeAll(node.children)

(***************************************************************************)
(* Construction of trees.  The IR layer holds one tree (expr) and builds   *)
(* a larger one by constructing a node over it; a constructor that raises  *)
(* leaves the tree as it is.  limit bounds the number of nodes.            *)
(***************************************************************************)
Build(results, limit) ==
    /\ pc = "build"
    /\ \E r \in results :
          /\ r.ok
          /\ Size(r.node) <= limit
          /\ expr' = r.node
    /\ UNCHANGED <<pc, other, depth, context, mapping, df, args,
                   hash_value, hash_calls, ret>>

ConstructLeaf(leaves) ==
    /\ expr = NoneExpr
    /\ Build(leaves, 1)

ConstructCast(limit) ==
    /\ expr # NoneExpr
    /\ Build({Cast("f64", expr)}, limit)

ConstructUnaryFunction(names, limit) ==
    /\ expr # NoneExpr
    /\ Build({UnaryFunction(expr.dtype, name, <<>>, <<expr>>) :
                 name \in names}, limit)

ConstructBooleanFunction(names, limit) ==
    /\ expr # NoneExpr
    /\ Build({BooleanFunction("bool", name, <<>>, <<expr>>) : name \in names},
             limit)

\* a BinOp of the tree and one of the operands, on either side
ConstructBinOp(operands, limit) ==
    /\ expr # NoneExpr
    /\ Build({BinOp(expr.dtype, "ADD", expr, r) : r \in operands}
             \cup {BinOp(l.dtype, "ADD", l, expr) : l \in operands}, limit)

(***************************************************************************)
(* SpecEval: the IR layer builds a tree and calls Expr.evaluate with a     *)
(* frame, a context and a mapping.                                         *)
(***************************************************************************)
EvalLeaves == {Col("f64", "a"), Col("i64", "b"), Literal("i64", 1)}

\* the mappings a caller passes: None, or a dict of at most n
\* sub-expressions of the tree
Mappings(root, n) ==
    {NoMapping} \cup
    {[present |-> TRUE,
      items |-> {[key |-> k, col |-> GivenColumn(k)] : k \in keys}] :
        keys \in {ks \in SUBSET Subtrees(root) : Cardinality(ks) <= n}}

InitBuild ==
    /\ pc = "build"
    /\ expr = NoneExpr
    /\ other = NoneExpr
    /\ depth = 0
    /\ context = "FRAME"
    /\ mapping = NoMapping
    /\ df = NoFrame
    /\ args = <<>>
    /\ hash_value = <<>>
    /\ hash_calls = <<>>
    /\ ret = NoRet

ConstructAggSum(limit) ==
    /\ expr # NoneExpr
    /\ Build({Agg(expr.dtype, "sum", <<>>, <<expr>>)}, limit)

\* the caller calls expr.evaluate(df, context=context, mapping=mapping);
\* data tells whether the data of the frame passes the checks of the rules
CallEvaluate(contexts, data, keys) ==
    /\ pc = "build"
    /\ expr # NoneExpr
    /\ \E ctx \in contexts, ok \in data, mp \in Mappings(expr, keys) :
          LET frame == [num_rows |-> 2, columns |-> {"a", "b"},
                        data_ok |-> ok]
          IN  /\ context' = ctx
              /\ mapping' = mp
              /\ df' = frame
              /\ ret' = evaluate(expr, frame, ctx, mp)
    /\ pc' = "returned"
    /\ UNCHANGED <<expr, other, depth, args, hash_value, hash_calls>>

NextEval ==
    \/ ConstructLeaf(EvalLeaves)
    \/ ConstructCast(MaxNodes)
    \/ ConstructAggSum(MaxNodes)
    \/ ConstructUnaryFunction({"abs"}, MaxNodes)
    \/ ConstructBooleanFunction({"IsFinite"}, MaxNodes)
    \/ ConstructBinOp(Nodes(EvalLeaves), MaxNodes)
    \/ CallEvaluate({"FRAME", "GROUPBY"}, {TRUE}, MaxKeys)

SpecEval == InitBuild /\ [][NextEval]_vars

\* the given columns that occur in a Column
RECURSIVE GivenIn(_)
GivenIn(col) ==
    IF col.rule = "given" THEN {col}
    ELSE UNION {GivenIn(col.args[i]) : i \in 1..Len(col.args)}

\* the columns mapped to the outermost mapped sub-expressions of a tree
RECURSIVE MappedDescendants(_, _)
MappedDescendants(node, mp) ==
    IF HasKey(mp, node) THEN {Lookup(mp, node)}
    ELSE UNION {MappedDescendants(node.children[i], mp) :
                  i \in 1..Len(node.children)}

\* the same, following only the children the rule of a node evaluates
RECURSIVE MappedEvaluated(_, _)
MappedEvaluated(node, mp) ==
    IF HasKey(mp, node) THEN {Lookup(mp, node)}
    ELSE UNION {MappedEvaluated(ChildrenEvaluated(node)[i], mp) :
                  i \in 1..Len(ChildrenEvaluated(node))}

\* the short-circuit and the dispatch at the root, and what every call of
\* do_evaluate received
EvaluateDispatch ==
    /\ mapping.present /\ HasKey(mapping, expr) =>
          ret = Returned(Lookup(mapping, expr), <<>>)
    /\ ~(mapping.present /\ HasKey(mapping, expr)) =>
          /\ ret.calls # <<>>
          /\ ret.calls[1].node = expr
    /\ \A i \in 1..Len(ret.calls) :
          /\ ret.calls[i].df = df
          /\ ret.calls[i].context = context
          /\ ret.calls[i].mapping = mapping
          /\ ~HasKey(mapping, ret.calls[i].node)

\* C1 as stated: evaluate returns the mapped column of a mapped node without
\* evaluating anything below it, otherwise runs the rule of the node with
\* the same frame, context and mapping, and every mapped descendant whose
\* ancestors are not mapped is used in the result.
C1_AsStated ==
    pc = "returned" =>
        /\ EvaluateDispatch
        /\ ret.status = "ok" =>
              MappedDescendants(expr, mapping) \subseteq GivenIn(ret.col)

\* C1 amended: as C1_AsStated, but the mapped descendants that are used are
\* those reached through children the rules of their ancestors evaluate
\* (a rule may skip a child, as IsFinite does for a non-floating child).
C1_Evaluate ==
    pc = "returned" =>
        /\ EvaluateDispatch
        /\ ret.status = "ok" =>
              GivenIn(ret.col) = MappedEvaluated(expr, mapping)

\* a mapped descendant is used below an ancestor that is not mapped
C1_Witness ==
    /\ pc = "returned"
    /\ ret.status = "ok"
    /\ mapping.present
    /\ ~HasKey(mapping, expr)
    /\ Len(ret.calls) >= 2
    /\ GivenIn(ret.col) # {}

(***************************************************************************)
(* SpecAgg: the IR layer builds a tree and calls collect_agg with a depth. *)
(***************************************************************************)
AggLeaves ==
    {Col("f64", "a"), Col("i64", "b"), Literal("i64", 1), LenExpr("i64"),
     LiteralColumn("i64", [id |-> 1, data |-> <<1, 2>>])}

\* a tree holds an Agg node
RECURSIVE HasAgg(_)
HasAgg(node) ==
    \/ node.kind = "Agg"
    \/ \E i \in 1..Len(node.children) : HasAgg(node.children[i])

\* the Agg nodes over one child, of the dtype of the child: every supported
\* name with the options the name takes
AggsOver(t) ==
    {Agg(t.dtype, name, <<>>, <<t>>) :
         name \in {"median", "n_unique", "first", "last", "mean", "sum",
                   "count"}}
    \cup {Agg(t.dtype, name, <<p>>, <<t>>) :
             name \in {"min", "max"}, p \in {0, 1}}
    \cup {Agg(t.dtype, name, <<1>>, <<t>>) : name \in {"std", "var"}}
    \cup {Agg(t.dtype, "quantile", <<1>>, <<t, Literal("f64", 1).node>>)}

\* the Agg nodes built over a tree that already holds an Agg
NestingAggsOver(t) ==
    {Agg(t.dtype, "sum", <<>>, <<t>>), Agg(t.dtype, "max", <<0>>, <<t>>)}

\* Agg over the tree: any supported aggregation over a tree without Agg,
\* one of two over a tree that holds an Agg already
ConstructAgg(limit) ==
    /\ expr # NoneExpr
    /\ Build(IF HasAgg(expr) THEN NestingAggsOver(expr) ELSE AggsOver(expr),
             limit)

\* the caller calls expr.collect_agg(depth=depth)
CallCollectAgg ==
    /\ pc = "build"
    /\ expr # NoneExpr
    /\ \E d \in 0..MaxDepth :
          /\ depth' = d
          /\ ret' = [status |-> collect_agg(expr, d).status,
                     error |-> collect_agg(expr, d).error,
                     requests |-> collect_agg(expr, d).requests,
                     calls |-> collect_agg_calls(expr, d)]
    /\ pc' = "returned"
    /\ UNCHANGED <<expr, other, context, mapping, df, args,
                   hash_value, hash_calls>>

NextAgg ==
    \/ ConstructLeaf(AggLeaves)
    \/ ConstructCast(MaxAggNodes)
    \/ ConstructAgg(MaxAggNodes)
    \/ ConstructUnaryFunction({"abs", "unique"}, MaxAggNodes)
    \/ ConstructBinOp(Nodes(AggLeaves), MaxAggNodes)
    \/ CallCollectAgg

SpecAgg == InitBuild /\ [][NextAgg]_vars

\* the first child of an Agg collects at depth 1: it supports collection
ChildSupportsCollection(node) ==
    /\ node.children # <<>>
    /\ collect_agg(node.children[1], 1).status = "ok"

\* min or max with the propagate_nans option set
NanPropagatingMinMax(node) ==
    node.name \in {"min", "max"} /\ Truthy(node.options)

\* C2: at depth 0, Agg.collect_agg of every supported kind that is not a
\* NaN-propagating min/max, over a child that supports collection, returns
\* exactly one request, owned by the Agg, whose pre-eval expression is that
\* of the child or its mask_nans wrapper; it does not fail.
C2_OneRequest ==
    (/\ pc = "returned"
     /\ depth = 0
     /\ expr.kind = "Agg"
     /\ ~NanPropagatingMinMax(expr)
     /\ ChildSupportsCollection(expr))
    => /\ ret.status = "ok"
       /\ Len(ret.requests) = 1
       /\ ret.requests[1].owner = expr
       /\ LET inner == collect_agg(expr.children[1], 1).requests
          IN  /\ Len(inner) = 1
              /\ \/ ret.requests[1].expr = inner[1].expr
                 \/ ret.requests[1].expr.children = <<inner[1].expr>>

\* the nodes through which collect_agg at depth 1 reaches an Agg: the Agg
\* itself, or a Cast above one
RECURSIVE ReachesAgg(_)
ReachesAgg(node) ==
    \/ node.kind = "Agg"
    \/ node.kind = "Cast" /\ ReachesAgg(node.children[1])

\* an Agg whose argument is an Agg, directly or below Casts
NestsAgg(node) ==
    /\ node.kind = "Agg"
    /\ ReachesAgg(node.children[1])

\* C3: Agg.collect_agg with depth >= 1 fails and emits no request, and
\* collect_agg(depth=0) fails on an Agg whose argument is an Agg directly
\* or below depth-forwarding Cast nodes.
C3_NestedRejected ==
    pc = "returned" =>
        /\ (expr.kind = "Agg" /\ depth >= 1) =>
              (ret.status = "raise" /\ ret.requests = <<>>)
        /\ (depth = 0 /\ NestsAgg(expr)) =>
              (ret.status = "raise" /\ ret.requests = <<>>)

\* sum over a Cast over an Agg was rejected at depth 0
C3_Witness ==
    /\ pc = "returned"
    /\ depth = 0
    /\ expr.kind = "Agg"
    /\ expr.name = "sum"
    /\ expr.children[1].kind = "Cast"
    /\ expr.children[1].children[1].kind = "Agg"
    /\ ret.status = "raise"
    /\ ret.error = "NotImplementedError"


\* C12: Agg.collect_agg of a min or max with the propagate_nans option set
\* fails at every depth; otherwise, whenever a request is emitted, its
\* pre-eval expression is the child's pre-eval expression wrapped in a
\* mask_nans UnaryFunction of the Agg's dtype if the Agg is a min or max
\* with a floating-point dtype, and the child's pre-eval expression itself,
\* unwrapped, for every other kind or dtype.
C12_NanHandling ==
    (pc = "returned" /\ expr.kind = "Agg") =>
        /\ NanPropagatingMinMax(expr) =>
              (ret.status = "raise" /\ ret.requests = <<>>)
        /\ (~NanPropagatingMinMax(expr) /\ ret.status = "ok") =>
              /\ Len(ret.requests) = 1
              /\ LET inner == collect_agg(expr.children[1], 1).requests[1].expr
                     e == ret.requests[1].expr
                 IN  IF expr.name \in {"min", "max"}
                        /\ expr.dtype \in {"f32", "f64"}
                     THEN /\ e.kind = "UnaryFunction"
                          /\ e.name = "mask_nans"
                          /\ e.dtype = expr.dtype
                          /\ e.options = <<>>
                          /\ e.children = <<inner>>
                     ELSE e = inner

\* min without NaN propagation over a floating column was collected with
\* its pre-eval expression wrapped in mask_nans
C12_Witness ==
    /\ pc = "returned"
    /\ depth = 0
    /\ expr.kind = "Agg"
    /\ expr.name = "min"
    /\ expr.dtype = "f64"
    /\ expr.children[1].kind = "Col"
    /\ ret.status = "ok"
    /\ ret.requests[1].expr.name = "mask_nans"
    /\ ret.requests[1].expr.children = <<expr.children[1]>>


\* the groupby backend applies an nth_element request to the rows of one
\* group: the n-th row (from the end if n is negative) of all rows with
\* INCLUDE, of the rows that are not null with EXCLUDE; null if there is
\* no such row
GroupNthElement(request, group) ==
    LET all == [i \in 1..Len(group.data) |-> i]
        keep(i) == request.nulls = "INCLUDE" \/ group.mask[i]
        rows == SelectSeq(all, keep)
        at == IF request.n < 0 THEN Len(rows) + request.n + 1
              ELSE request.n + 1
    IN  IF at \in 1..Len(rows)
        THEN [valid |-> group.mask[rows[at]], value |-> group.data[rows[at]]]
        ELSE [valid |-> FALSE, value |-> 0]

\* the groups of one to MaxRows rows with values 1, 2 and nulls
Groups ==
    UNION {{[data |-> [i \in 1..k |-> IF m[i] THEN d[i] ELSE 0], mask |-> m] :
               d \in [1..k -> {1, 2}], m \in [1..k -> BOOLEAN]} :
           k \in 1..MaxRows}

\* C13: the request Agg.collect_agg emits for first is nth_element 0 with
\* nulls included and for last nth_element -1 with nulls included, so that
\* the result for every group is its first or last row, null if that row is
\* null; for every other kind the emitted request is the one chosen by the
\* constructor.
C13_FirstLast ==
    (pc = "returned" /\ expr.kind = "Agg" /\ ret.status = "ok") =>
        /\ Len(ret.requests) = 1
        /\ LET agg == ret.requests[1].agg
           IN  /\ expr.name = "first" =>
                     /\ agg = [kind |-> "NTH_ELEMENT", n |-> 0,
                               nulls |-> "INCLUDE"]
                     /\ \A g \in Groups :
                           GroupNthElement(agg, g)
                             = [valid |-> g.mask[1], value |-> g.data[1]]
               /\ expr.name = "last" =>
                     /\ agg = [kind |-> "NTH_ELEMENT", n |-> -1,
                               nulls |-> "INCLUDE"]
                     /\ \A g \in Groups :
                           GroupNthElement(agg, g)
                             = [valid |-> g.mask[Len(g.data)],
                                value |-> g.data[Len(g.data)]]
               /\ expr.name \notin {"first", "last"} =>
                     /\ agg = expr.request
                     /\ agg = AggInitRequest(expr.name, expr.options,
                                             expr.children)
                     /\ agg # NoRequest

\* last over a column was collected as nth_element -1
C13_Witness ==
    /\ pc = "returned"
    /\ depth = 0
    /\ expr.kind = "Agg"
    /\ expr.name = "last"
    /\ expr.children[1].kind = "Col"
    /\ ret.status = "ok"
    /\ ret.requests[1].agg.kind = "NTH_ELEMENT"
    /\ ret.requests[1].agg.n = -1


\* C18: at every depth, collect_agg of a column reference returns exactly
\* one request: the reference itself as pre-eval expression, collect_list,
\* the reference itself as owner; of Len exactly one request: no pre-eval
\* expression, the count of all rows with nulls included, Len itself as
\* owner; of a scalar or array literal an empty list of requests.
C18_Leaves ==
    pc = "returned" =>
        /\ expr.kind = "Col" =>
              /\ ret.status = "ok"
              /\ ret.requests
                   = <<[expr |-> expr,
                        agg |-> [kind |-> "COLLECT_LIST", n |-> 0,
                                 nulls |-> ""],
                        owner |-> expr]>>
        /\ expr.kind = "Len" =>
              /\ ret.status = "ok"
              /\ ret.requests
                   = <<[expr |-> NoneExpr,
                        agg |-> [kind |-> "COUNT_ALL", n |-> 0,
                                 nulls |-> "INCLUDE"],
                        owner |-> expr]>>
        /\ expr.kind \in {"Literal", "LiteralColumn"} =>
              /\ ret.status = "ok"
              /\ ret.requests = <<>>

\* Len collected at depth 1: one request without pre-eval expression
C18_Witness ==
    /\ pc = "returned"
    /\ depth = 1
    /\ expr.kind = "Len"
    /\ Len(ret.requests) = 1
    /\ ret.requests[1].expr = NoneExpr
    /\ ret.requests[1].owner = expr


\* the request that hands a node over to be gathered as a list
OwnList(node) ==
    [expr |-> node,
     agg |-> [kind |-> "COLLECT_LIST", n |-> 0, nulls |-> ""],
     owner |-> node]

\* C19: BinOp.collect_agg at depth 0 calls collect_agg at depth 0 on the
\* left and then on the right child; if both return and every request
\* they returned, left then right, is a collect_list (also if they
\* returned none), the result is the one request (BinOp, collect_list,
\* BinOp); otherwise it is the requests of the left child followed by
\* those of the right child, unchanged.
C19_BinOpDepth0 ==
    (pc = "returned" /\ depth = 0 /\ expr.kind = "BinOp") =>
        LET left == collect_agg(expr.children[1], 0)
            right == collect_agg(expr.children[2], 0)
            both == left.requests \o right.requests
            after_left == 2 + Len(collect_agg_calls(expr.children[1], 0))
        IN  /\ ret.calls[1] = [node |-> expr, depth |-> 0]
            /\ ret.calls[2] = [node |-> expr.children[1], depth |-> 0]
            /\ left.status = "ok" =>
                  ret.calls[after_left]
                    = [node |-> expr.children[2], depth |-> 0]
            /\ (left.status = "ok" /\ right.status = "ok") =>
                  /\ ret.status = "ok"
                  /\ IF \A i \in 1..Len(both) :
                            both[i].agg.kind = "COLLECT_LIST"
                     THEN ret.requests = <<OwnList(expr)>>
                     ELSE ret.requests = both

\* a BinOp of a sum and a column returned the request of the sum followed
\* by that of the column
C19_Witness ==
    /\ pc = "returned"
    /\ depth = 0
    /\ expr.kind = "BinOp"
    /\ expr.children[1].kind = "Agg"
    /\ expr.children[1].name = "sum"
    /\ expr.children[2].kind = "Col"
    /\ ret.status = "ok"
    /\ Len(ret.requests) = 2
    /\ ret.requests[1].owner = expr.children[1]
    /\ ret.requests[2] = OwnList(expr.children[2])

\* C20: BinOp.collect_agg at depth 1 returns exactly the one request
\* (BinOp, collect_list, BinOp) and makes no call of collect_agg on a
\* child, whatever the children are.
C20_BinOpDepth1 ==
    (pc = "returned" /\ depth = 1 /\ expr.kind = "BinOp") =>
        /\ ret.status = "ok"
        /\ ret.requests = <<OwnList(expr)>>
        /\ ret.calls = <<[node |-> expr, depth |-> 1]>>

\* a BinOp over an Agg, which fails at depth 1, returned itself at depth 1
C20_Witness ==
    /\ pc = "returned"
    /\ depth = 1
    /\ expr.kind = "BinOp"
    /\ expr.children[1].kind = "Agg"
    /\ ret.status = "ok"
    /\ ret.requests = <<OwnList(expr)>>
    /\ Len(ret.calls) = 1

\* the children of a node
Children(node) == {node.children[i] : i \in 1..Len(node.children)}

\* C25: in the calls of collect_agg that a call with depth 0 makes, every
\* call has depth 0 or 1; a call made by an Agg has the depth of the Agg
\* plus one, and a call made by any other node has the depth of that node.
C25_DepthInvariant ==
    (pc = "returned" /\ depth = 0) =>
        LET calls == ret.calls
        IN  /\ calls[1] = CollectCall(expr, 0)
            /\ \A i \in 2..Len(calls) :
                  /\ calls[i].depth \in {0, 1}
                  /\ \E j \in 1..(i - 1) :
                        /\ calls[i].node \in Children(calls[j].node)
                        /\ calls[i].depth
                             = IF calls[j].node.kind = "Agg"
                               THEN calls[j].depth + 1
                               ELSE calls[j].depth

\* sum(cast(a)) + b was collected: the Cast and the column below the Agg
\* at depth 1, the other nodes at depth 0
C25_Witness ==
    /\ pc = "returned"
    /\ depth = 0
    /\ ret.status = "ok"
    /\ expr.kind = "BinOp"
    /\ Len(ret.calls) = 5
    /\ ret.calls[2].node.kind = "Agg"
    /\ ret.calls[2].depth = 0
    /\ ret.calls[3].node.kind = "Cast"
    /\ ret.calls[3].depth = 1
    /\ ret.calls[4].depth = 1
    /\ ret.calls[5].depth = 0

(***************************************************************************)
(* SpecGroupBy: the groupby executor builds a target expression, collects  *)
(* its aggregation requests at depth 0 and, for the final pass, evaluates   *)
(* the expression in the GROUPBY context with a mapping from the owner of   *)
(* every request to the column of its result.                               *)
(***************************************************************************)
GroupByLeaves == {Col("f64", "a"), Col("i64", "b"), Literal("i64", 1)}

ConstructGroupByAgg(limit) ==
    /\ expr # NoneExpr
    /\ Build({Agg(expr.dtype, "sum", <<>>, <<expr>>),
              Agg(expr.dtype, "min", <<0>>, <<expr>>)}, limit)

\* fill_null over the tree with a literal fill value
ConstructFillNull(limit) ==
    /\ expr # NoneExpr
    /\ Build({UnaryFunction(expr.dtype, "fill_null", <<>>,
                            <<expr, Literal(expr.dtype, 0).node>>)}, limit)

\* the mapping from the owner of every request to its result column
OwnerMapping(requests) ==
    [present |-> TRUE,
     items |-> {[key |-> requests[i].owner,
                 col |-> GivenColumn(requests[i].owner)] :
                   i \in 1..Len(requests)}]

\* the final pass over a target whose requests were collected
GroupByFinalPass ==
    /\ pc = "build"
    /\ expr # NoneExpr
    /\ collect_agg(expr, 0).status = "ok"
    /\ LET mp == OwnerMapping(collect_agg(expr, 0).requests)
           frame == [num_rows |-> 2, columns |-> {"a", "b"},
                     data_ok |-> TRUE]
       IN  /\ mapping' = mp
           /\ df' = frame
           /\ ret' = evaluate(expr, frame, "GROUPBY", mp)
    /\ context' = "GROUPBY"
    /\ depth' = 0
    /\ pc' = "evaluated"
    /\ UNCHANGED <<expr, other, args, hash_value, hash_calls>>

NextGroupBy ==
    \/ ConstructLeaf(GroupByLeaves)
    \/ ConstructCast(MaxGroupByNodes)
    \/ ConstructGroupByAgg(MaxGroupByNodes)
    \/ ConstructUnaryFunction({"abs", "unique"}, MaxGroupByNodes)
    \/ ConstructFillNull(MaxGroupByNodes)
    \/ ConstructBinOp(Nodes(GroupByLeaves), MaxGroupByNodes)
    \/ CallCollectAgg
    \/ GroupByFinalPass

SpecGroupBy == InitBuild /\ [][NextGroupBy]_vars

\* C23: when collect_agg(depth=0) succeeds on a tree, evaluating the tree
\* in the GROUPBY context with a mapping that holds the owner of every
\* returned request never calls do_evaluate of an Agg.
C23_FinalPass ==
    pc = "evaluated" =>
        /\ \A i \in 1..Len(ret.calls) : ret.calls[i].node.kind # "Agg"
        /\ ~(ret.status = "raise" /\ ret.error = "NotImplementedError")

\* sum(a) + b was evaluated: only the rule of the BinOp ran
C23_Witness ==
    /\ pc = "evaluated"
    /\ expr.kind = "BinOp"
    /\ expr.children[1].kind = "Agg"
    /\ expr.children[2].kind = "Col"
    /\ ret.status = "ok"
    /\ Len(ret.calls) = 1
    /\ ret.calls[1].node = expr

\* the node below the Casts over a node
RECURSIVE StripCasts(_)
StripCasts(node) ==
    IF node.kind = "Cast" THEN StripCasts(node.children[1]) ELSE node

\* C24 as stated: when collect_agg(depth=0) succeeds, no pre-eval
\* expression of the returned requests contains an Agg.
C24_AsStated ==
    (pc = "returned" /\ depth = 0 /\ ret.status = "ok") =>
        \A i \in 1..Len(ret.requests) : ~HasAgg(ret.requests[i].expr)

\* C24: when collect_agg(depth=0) succeeds, no pre-eval expression of the
\* returned requests is an Agg or a Cast, an Agg inside a pre-eval
\* expression lies below a BinOp or a unary function, and no Agg that was
\* collected has an Agg as its argument, directly or through Casts only.
C24_NoDirectNesting ==
    (pc = "returned" /\ depth = 0 /\ ret.status = "ok") =>
        /\ \A i \in 1..Len(ret.requests) :
              LET e == ret.requests[i].expr
              IN  /\ e.kind \notin {"Agg", "Cast"}
                  /\ HasAgg(e) => e.kind \in {"BinOp", "UnaryFunction"}
        /\ \A i \in 1..Len(ret.calls) :
              LET node == ret.calls[i].node
              IN  (node.kind = "Agg" /\ ret.calls[i].depth = 0) =>
                      StripCasts(node.children[1]).kind # "Agg"

\* sum(min(a) + a) was collected: its request pre-evaluates min(a) + a
C24_Witness ==
    /\ pc = "returned"
    /\ depth = 0
    /\ ret.status = "ok"
    /\ expr.kind = "Agg"
    /\ expr.name = "sum"
    /\ expr.children[1].kind = "BinOp"
    /\ expr.children[1].children[1].kind = "Agg"
    /\ Len(ret.requests) = 1
    /\ ret.requests[1].expr = expr.children[1]
    /\ ret.requests[1].owner = expr

UnaryNoGroupBy == {"unique", "drop_nulls"} \cup UnarySupportedCumAggs

\* C27: UnaryFunction.collect_agg fails at every depth for unique,
\* drop_nulls and the cumulative functions; for every other supported
\* unary function it returns at depth 1 the one request (itself,
\* collect_list, itself) without a call on a child, and at depth 0 what
\* its first child returns at depth 0, unchanged.
C27_UnaryCollect ==
    (pc = "returned" /\ expr.kind = "UnaryFunction") =>
        IF expr.name \in UnaryNoGroupBy
        THEN ret.status = "raise" /\ ret.error = "NotImplementedError"
        ELSE /\ depth = 1 =>
                   /\ ret.status = "ok"
                   /\ ret.requests = <<OwnList(expr)>>
                   /\ ret.calls = <<CollectCall(expr, 1)>>
             /\ depth = 0 =>
                   LET child == collect_agg(expr.children[1], 0)
                   IN  /\ ret.status = child.status
                       /\ ret.error = child.error
                       /\ ret.requests = child.requests

(***************************************************************************)
(* SpecHash: the caller builds two trees and then hashes, compares, prints *)
(* and evaluates them and collects their aggregations, in any order.  An   *)
(* instance is the object at a path below the root held in expr or other;  *)
(* hash_value is its _hash_value slot and hash_calls counts the runs of    *)
(* get_hash on it.                                                         *)
(***************************************************************************)
Inst(slot, path) == [slot |-> slot, path |-> path]

RECURSIVE Paths(_)
Paths(node) ==
    {<<>>} \cup UNION {{<<i>> \o p : p \in Paths(node.children[i])} :
                          i \in 1..Len(node.children)}

RECURSIVE NodeAt(_, _)
NodeAt(node, path) ==
    IF path = <<>> THEN node
    ELSE NodeAt(node.children[Head(path)], Tail(path))

\* every node object of the two trees
Instances ==
    {Inst("expr", p) : p \in Paths(expr)}
    \cup {Inst("other", p) : p \in Paths(other)}

\* the node an instance is
Object(inst) == NodeAt(IF inst.slot = "expr" THEN expr ELSE other, inst.path)

\* self.children[i] of an instance
Child(inst, i) == Inst(inst.slot, inst.path \o <<i>>)

\* reading self._hash_value raises AttributeError
NoHash == -1

\* the caches and the value of the last hash
HashState(hv, calls, value) == [hv |-> hv, calls |-> calls, value |-> value]

\* __hash__ that never finds the attribute
NeverCached(st, inst) == FALSE

\* __hash__: return self._hash_value did not raise AttributeError
Cached(st, inst) == st.hv[inst] # NoHash

RECURSIVE Hash(_, _)
RECURSIVE HashChildren(_, _, _)
\* hashing the tuple of constructor arguments hashes the children in order
HashChildren(st, inst, i) ==
    IF i > Len(Object(inst).children) THEN st
    ELSE HashChildren(Hash(st, Child(inst, i)), inst, i + 1)

\* Expr.__hash__ on an instance
Hash(st, inst) ==
    IF Cached(st, inst) THEN HashState(st.hv, st.calls, st.hv[inst])
    ELSE LET node == Object(inst)
             kids == IF node.kind = "LiteralColumn" THEN st
                     ELSE HashChildren(st, inst, 1)
             h == HashOf(node, [i \in 1..Len(node.children) |->
                                   kids.hv[Child(inst, i)]])
         IN  HashState([kids.hv EXCEPT ![inst] = h],
                       [kids.calls EXCEPT ![inst] = @ + 1], h)

\* Expr.__eq__ on two instances: the caches after it, and value 1 for True
Eq(st, a, b) ==
    IF Object(a).kind # Object(b).kind
    THEN HashState(st.hv, st.calls, 0)
    ELSE LET s1 == Hash(st, a)
             s2 == Hash(s1, b)
         IN  IF s1.value # s2.value
             THEN HashState(s2.hv, s2.calls, 0)
             ELSE HashState(s2.hv, s2.calls,
                            IF is_equal(Object(a), Object(b)) THEN 1 ELSE 0)

EqLeaves ==
    {Col("f64", "a"), Col("f64", "b"),
     LiteralColumn("i64", [id |-> 1, data |-> <<1, 2>>]),
     LiteralColumn("i64", [id |-> 2, data |-> <<1, 2>>])}

HashLeaves ==
    {Col("f64", "a"),
     LiteralColumn("i64", [id |-> 1, data |-> <<1, 2>>]),
     LiteralColumn("i64", [id |-> 2, data |-> <<1, 2>>])}

ConstructSort(limit) ==
    /\ expr # NoneExpr
    /\ Build({Sort(expr.dtype, <<1, 0, 0>>, expr),
              SortBy(expr.dtype, <<1, 0, 0>>, expr, <<>>)}, limit)

ConstructGather(limit) ==
    /\ expr # NoneExpr
    /\ Build({Gather(expr.dtype, expr, Col("i64", "idx").node),
              Filter(expr.dtype, expr, Col("i64", "idx").node)}, limit)

\* the caller keeps the tree and starts a second one
StartSecond ==
    /\ pc = "build"
    /\ expr # NoneExpr
    /\ other = NoneExpr
    /\ other' = expr
    /\ expr' = NoneExpr
    /\ UNCHANGED <<pc, depth, context, mapping, df, args, hash_value,
                   hash_calls, ret>>

\* both trees are constructed: no object has a _hash_value yet
Constructed ==
    /\ pc = "build"
    /\ expr # NoneExpr
    /\ other # NoneExpr
    /\ pc' = "ready"
    /\ hash_value' = [i \in Instances |-> NoHash]
    /\ hash_calls' = [i \in Instances |-> 0]
    /\ UNCHANGED <<expr, other, depth, context, mapping, df, args, ret>>

\* the bound on the runs of get_hash per instance
Callable ==
    /\ pc = "ready"
    /\ \A i \in Instances : hash_calls[i] < MaxCalls

HashRet(op, a, b, hit, value, out) ==
    [status |-> "ok", op |-> op, a |-> a, b |-> b, hit |-> hit,
     value |-> value, out |-> out]

\* hash(a)
CallHash ==
    /\ Callable
    /\ \E a \in Instances :
          LET st == Hash(HashState(hash_value, hash_calls, 0), a)
          IN  /\ hash_value' = st.hv
              /\ hash_calls' = st.calls
              /\ ret' = HashRet("hash", a, a, hash_value[a] # NoHash,
                                st.value, NoRet)
    /\ UNCHANGED <<pc, expr, other, depth, context, mapping, df, args>>

\* a == b, a an object of the first tree and b one of the second
CallEq ==
    /\ Callable
    /\ \E a \in {i \in Instances : i.slot = "expr"},
          b \in {i \in Instances : i.slot = "other"} :
          LET st == Eq(HashState(hash_value, hash_calls, 0), a, b)
          IN  /\ hash_value' = st.hv
              /\ hash_calls' = st.calls
              /\ ret' = HashRet("eq", a, b, FALSE, st.value, NoRet)
    /\ UNCHANGED <<pc, expr, other, depth, context, mapping, df, args>>

\* repr(a): reads and sets _repr_value only
CallRepr ==
    /\ Callable
    /\ \E a \in Instances :
          ret' = HashRet("repr", a, a, FALSE, 0, NoRet)
    /\ UNCHANGED <<pc, expr, other, depth, context, mapping, df, args,
                   hash_value, hash_calls>>

\* expr.evaluate(df, mapping=None), or with the mapping {other: column}: the
\* dict hashes its key when it is built, and mapping[self] hashes self
CallEvaluateHashed ==
    /\ Callable
    /\ \E mp \in {NoMapping,
                  [present |-> TRUE,
                   items |-> {[key |-> other, col |-> GivenColumn(other)]}]} :
          LET frame == [num_rows |-> 2, columns |-> {"a", "b", "idx"},
                        data_ok |-> TRUE]
              st0 == HashState(hash_value, hash_calls, 0)
              st == IF mp.present
                    THEN Hash(Hash(st0, Inst("other", <<>>)),
                              Inst("expr", <<>>))
                    ELSE st0
          IN  /\ mapping' = mp
              /\ df' = frame
              /\ hash_value' = st.hv
              /\ hash_calls' = st.calls
              /\ ret' = HashRet("evaluate", Inst("expr", <<>>),
                                Inst("expr", <<>>), FALSE, 0,
                                evaluate(expr, frame, "FRAME", mp))
    /\ UNCHANGED <<pc, expr, other, depth, context, args>>

\* expr.collect_agg(depth=0): no hash is taken
CallCollectAggHashed ==
    /\ Callable
    /\ ret' = HashRet("collect_agg", Inst("expr", <<>>), Inst("expr", <<>>),
                      FALSE, 0, collect_agg(expr, 0))
    /\ UNCHANGED <<pc, expr, other, depth, context, mapping, df, args,
                   hash_value, hash_calls>>

NextHash ==
    \/ ConstructLeaf(HashLeaves)
    \/ ConstructCast(MaxHashNodes)
    \/ StartSecond
    \/ Constructed
    \/ CallHash
    \/ CallEq
    \/ CallRepr
    \/ CallEvaluateHashed
    \/ CallCollectAggHashed

SpecHash == InitBuild /\ [][NextHash]_vars

(***************************************************************************)
(* SpecEq: the caller builds two trees and compares them with ==.          *)
(***************************************************************************)
\* expr == other
CallEqual ==
    /\ pc = "build"
    /\ expr # NoneExpr
    /\ other # NoneExpr
    /\ ret' = [status |-> "ok", value |-> ExprEq(expr, other)]
    /\ pc' = "returned"
    /\ UNCHANGED <<expr, other, depth, context, mapping, df, args,
                   hash_value, hash_calls>>

NextEq ==
    \/ ConstructLeaf(EqLeaves)
    \/ ConstructSort(MaxEqNodes)
    \/ ConstructGather(MaxEqNodes)
    \/ StartSecond
    \/ CallEqual

SpecEq == InitBuild /\ [][NextEq]_vars

\* the same kind, equal non-child fields and pairwise-equal children,
\* recursively; payloads of literals compare by their contents
RECURSIVE StructEq(_, _)
StructEq(a, b) ==
    /\ a.kind = b.kind
    /\ a.dtype = b.dtype
    /\ a.name = b.name
    /\ a.options = b.options
    /\ a.value.data = b.value.data
    /\ Len(a.children) = Len(b.children)
    /\ \A i \in 1..Len(a.children) : StructEq(a.children[i], b.children[i])

\* the array literals of two trees hold the same payload objects
RECURSIVE SamePayloads(_, _)
SamePayloads(a, b) ==
    /\ a.value.id = b.value.id
    /\ Len(a.children) = Len(b.children)
    /\ \A i \in 1..Len(a.children) :
          SamePayloads(a.children[i], b.children[i])

\* C4 as stated: a == b if and only if a and b have the same kind, equal
\* non-child fields and pairwise-equal children, array literals included.
C4_AsStated ==
    pc = "returned" => (ret.value <=> StructEq(expr, other))

\* C4 amended: a == b implies the same kind, equal non-child fields and
\* pairwise-equal children; the converse holds when the array literals of
\* a and b hold the same payload objects (an array literal is hashed by
\* the identity of its payload); nodes of different kinds are never equal.
C4_Equality ==
    pc = "returned" =>
        /\ ret.value => StructEq(expr, other)
        /\ (StructEq(expr, other) /\ SamePayloads(expr, other)) => ret.value
        /\ expr.kind # other.kind => ~ret.value

\* a Gather and a Filter with the same fields and children compared unequal
C4_Witness ==
    /\ pc = "returned"
    /\ expr.kind = "Gather"
    /\ other.kind = "Filter"
    /\ expr.children = other.children
    /\ expr.dtype = other.dtype
    /\ ~ret.value

\* the last call was op and has returned
Last(op) == ret.status = "ok" /\ ret.op = op

\* C5: a == b implies hash(a) = hash(b); get_hash runs at most once on an
\* instance, and every hash of it, after any hash, ==, repr, evaluate and
\* collect_agg on it or on a tree that holds it, returns that one value.
C5_HashOnce ==
    pc = "ready" =>
        /\ \A i \in Instances :
              /\ hash_calls[i] <= 1
              /\ hash_calls[i] = 1 <=> hash_value[i] # NoHash
              /\ hash_value[i] # NoHash => hash_value[i] = get_hash(Object(i))
        /\ Last("hash") =>
              /\ ret.value = hash_value[ret.a]
              /\ ret.value = get_hash(Object(ret.a))
        /\ (Last("eq") /\ ret.value = 1) =>
              /\ hash_value[ret.a] # NoHash
              /\ hash_value[ret.a] = hash_value[ret.b]
        /\ \A a \in Instances, b \in Instances :
              ExprEq(Object(a), Object(b))
                  => get_hash(Object(a)) = get_hash(Object(b))

\* a hash that found the cached value of an instance below the root
C5_Witness ==
    /\ pc = "ready"
    /\ Last("hash")
    /\ ret.hit
    /\ ret.a.path # <<>>
    /\ hash_calls[ret.a] = 1
    /\ hash_calls[Inst(ret.a.slot, <<>>)] = 1

(***************************************************************************)
(* SpecFn: the caller constructs function nodes of the four families over  *)
(* a tree, with discriminants and options the constructors accept or       *)
(* reject, and evaluates the tree.                                         *)
(***************************************************************************)
FnLeaves == {Col("str", "a"), Col("f64", "b")}

\* Strptime options (format, strict, exact, cache)
StrptimeOptions ==
    {<<1, 0, 1, 0>>, <<1, 1, 1, 0>>, <<0, 0, 1, 0>>, <<1, 0, 0, 0>>,
     <<1, 0, 1, 1>>}

\* the constructor calls of the caller over the tree t
FunctionsOver(t) ==
    {BooleanFunction("bool", name, <<>>, <<t>>) :
        name \in {"IsNull", "Not", "IsBetween"}}
    \cup {BooleanFunction("bool", "IsIn", <<>>, <<t, l>>) :
             l \in Nodes(FnLeaves)}
    \cup {StringFunction("str", name, <<>>, <<t>>) :
             name \in {"Lowercase", "Uppercase", "ConcatHorizontal"}}
    \cup {StringFunction("datetime", "Strptime", o, <<t>>) :
             o \in StrptimeOptions}
    \cup {TemporalFunction("i32", name, <<>>, <<t>>) :
             name \in {"Year", "Nanosecond", "ToString"}}
    \cup {UnaryFunction(t.dtype, name, <<>>, <<t>>) : name \in {"abs", "rank"}}
    \cup {UnaryFunction(t.dtype, "cum_sum", <<reverse>>, <<t>>) :
             reverse \in {0, 1}}

\* a constructor call: the node replaces the tree, or the constructor raised
ConstructFunction(limit) ==
    /\ pc = "build"
    /\ expr # NoneExpr
    /\ \E r \in FunctionsOver(expr) :
          IF r.ok
          THEN /\ Size(r.node) <= limit
               /\ expr' = r.node
               /\ ret' = NoRet
          ELSE /\ expr' = expr
               /\ ret' = [status |-> "raise", error |-> r.error]
    /\ UNCHANGED <<pc, other, depth, context, mapping, df, args,
                   hash_value, hash_calls>>

NextFn ==
    \/ ConstructLeaf(FnLeaves)
    \/ ConstructFunction(MaxFnNodes)
    \/ CallEvaluate({"FRAME"}, BOOLEAN, 0)

SpecFn == InitBuild /\ [][NextFn]_vars

FunctionFamilies ==
    {"BooleanFunction", "StringFunction", "TemporalFunction", "UnaryFunction"}

\* C6: evaluate of a tree of successfully constructed function nodes never
\* ends in the NotImplementedError of a function node's rule: a
\* discriminant or option without an evaluation rule is rejected by the
\* constructor.
C6_FailFast ==
    (pc = "returned" /\ expr.kind \in FunctionFamilies) =>
        ~(ret.status = "raise" /\ ret.error = "NotImplementedError")

(***************************************************************************)
(* SpecIsIn: the caller constructs IsIn nodes over the tree and a second   *)
(* child of any type, and evaluates the tree.  ret records a constructor   *)
(* call: the children passed and whether __init__ raised.                  *)
(***************************************************************************)
IsInLeaves ==
    {Col("i64", "a"), Col("f64", "b"), Col("bool", "c"), Literal("i64", 1),
     LiteralColumn("i64", [id |-> 1, data |-> <<1, 2>>])}

\* BooleanFunction(bool, IsIn, (), expr, haystack)
ConstructIsIn(limit) ==
    /\ pc = "build"
    /\ expr # NoneExpr
    /\ \E h \in Nodes(IsInLeaves) :
          LET children == <<expr, h>>
              r == BooleanFunction("bool", "IsIn", <<>>, children)
          IN  IF r.ok
              THEN /\ Size(r.node) <= limit
                   /\ expr' = r.node
                   /\ ret' = [status |-> "init_ok", error |-> "",
                              children |-> children]
              ELSE /\ expr' = expr
                   /\ ret' = [status |-> "init_raise", error |-> r.error,
                              children |-> children]
    /\ UNCHANGED <<pc, other, depth, context, mapping, df, args,
                   hash_value, hash_calls>>

NextIsIn ==
    \/ ConstructLeaf(IsInLeaves)
    \/ ConstructCast(MaxIsInNodes)
    \/ ConstructIsIn(MaxIsInNodes)
    \/ CallEvaluate({"FRAME"}, {TRUE}, 0)

SpecIsIn == InitBuild /\ [][NextIsIn]_vars

\* two children differ in their dtype
Mismatched(children) ==
    \E i, j \in 1..Len(children) : children[i].dtype # children[j].dtype

IsInNode(node) == node.kind = "BooleanFunction" /\ node.name = "IsIn"

\* C15: the constructor of an IsIn whose children do not all have the same
\* dtype raises NotImplementedError and the caller gets no node; no tree
\* holds an IsIn with mismatched children, and do_evaluate never runs on
\* one.
C15_IsIn ==
    /\ (ret.status \in {"init_ok", "init_raise"} /\ Mismatched(ret.children))
          => /\ ret.status = "init_raise"
             /\ ret.error = "NotImplementedError"
    /\ \A n \in Subtrees(expr) : IsInNode(n) => ~Mismatched(n.children)
    /\ pc = "returned" =>
          \A i \in 1..Len(ret.calls) :
              IsInNode(ret.calls[i].node) =>
                  ~Mismatched(ret.calls[i].node.children)

\* the constructor rejected an IsIn of an integer and a floating column
C15_Witness ==
    /\ ret.status = "init_raise"
    /\ ret.children[1].dtype = "i64"
    /\ ret.children[2].dtype = "f64"
    /\ expr = ret.children[1]

(***************************************************************************)
(* SpecBinOp: the caller constructs BinOp nodes with any operator and      *)
(* output type over the tree and a second operand.  ret records the        *)
(* constructor call and whether __init__ raised.                           *)
(***************************************************************************)
BinOpLeaves ==
    {Col("i64", "a"), Col("f64", "b"), Col("bool", "c"), Col("str", "d")}

BinaryOperators ==
    {"BITWISE_AND", "BITWISE_OR", "BITWISE_XOR", "LOGICAL_AND", "LOGICAL_OR",
     "ADD", "EQUAL"}

\* BinOp(dtype, op, left, right) with the tree as one of the operands
ConstructBinOpOf(limit) ==
    /\ pc = "build"
    /\ expr # NoneExpr
    /\ \E dtype \in {"bool", "i64", "f64"}, op \in BinaryOperators,
          o \in Nodes(BinOpLeaves), swap \in BOOLEAN :
          LET left == IF swap THEN o ELSE expr
              right == IF swap THEN expr ELSE o
              r == BinOp(dtype, op, left, right)
              call == [dtype |-> dtype, op |-> op, left |-> left,
                       right |-> right]
          IN  IF r.ok
              THEN /\ Size(r.node) <= limit
                   /\ expr' = r.node
                   /\ ret' = [status |-> "init_ok", error |-> "",
                              call |-> call, node |-> r.node]
              ELSE /\ expr' = expr
                   /\ ret' = [status |-> "init_raise", error |-> r.error,
                              call |-> call, node |-> NoneExpr]
    /\ UNCHANGED <<pc, other, depth, context, mapping, df, args,
                   hash_value, hash_calls>>

NextBinOp ==
    \/ ConstructLeaf(BinOpLeaves)
    \/ ConstructBinOpOf(MaxNodes)

SpecBinOp == InitBuild /\ [][NextBinOp]_vars

\* the operator a BinOp of the output type dtype is to store for op
StoredOperator(dtype, op) ==
    IF dtype # "bool" THEN op
    ELSE IF op = "BITWISE_AND" \/ op = "LOGICAL_AND" THEN "NULL_LOGICAL_AND"
    ELSE IF op = "BITWISE_OR" \/ op = "LOGICAL_OR" THEN "NULL_LOGICAL_OR"
    ELSE op

\* C21: a BinOp with boolean output type stores the null-aware logical AND
\* for bitwise or logical AND and the null-aware logical OR for bitwise or
\* logical OR; every other operator, and every operator with another
\* output type, is stored unchanged; the constructor raises exactly when
\* the backend does not support the stored operator for the output and
\* operand types.
C21_BinOpOperator ==
    ret.status \in {"init_ok", "init_raise"} =>
        LET c == ret.call
            stored == StoredOperator(c.dtype, c.op)
        IN  /\ ret.status = "init_ok" =>
                  /\ ret.node.kind = "BinOp"
                  /\ ret.node.name = stored
                  /\ ret.node.dtype = c.dtype
                  /\ ret.node.children = <<c.left, c.right>>
            /\ ret.status = "init_raise" <=>
                  ~IsSupportedOperation(c.dtype, c.left.dtype, c.right.dtype,
                                        stored)
            /\ ret.status = "init_raise" => ret.error = "NotImplementedError"

\* a bitwise AND with boolean output over floating operands was built as
\* a null-aware logical AND
C21_Witness ==
    /\ ret.status = "init_ok"
    /\ ret.call.op = "BITWISE_AND"
    /\ ret.call.dtype = "bool"
    /\ ret.call.left.dtype = "f64"
    /\ ret.node.name = "NULL_LOGICAL_AND"
    /\ expr = ret.node

(***************************************************************************)
(* Rules on the data of columns.  A plc.Column is its rows (data, integers;*)
(* a boolean is 0 or 1) and its validity mask (FALSE: the row is null);    *)
(* the data of a null row is 0.  A string is the integer code of its       *)
(* contents: code 0 does not parse as a timestamp, code k > 0 parses.      *)
(***************************************************************************)
PlcColumn(data, mask) == [data |-> data, mask |-> mask]

NumRows(col) == Len(col.data)

\* the rows that are not null
ValidRows(col) == {i \in 1..NumRows(col) : col.mask[i]}

\* plc.Column.null_count
NullCount(col) == NumRows(col) - Cardinality(ValidRows(col))

\* plc.Scalar: a null scalar converts to None
Scalar(v) == [valid |-> TRUE, value |-> v]
NullScalar == [valid |-> FALSE, value |-> 0]

\* plc.reduce.reduce with aggregation any(): nulls are skipped, and a column
\* without valid rows reduces to false
ReduceAny(col) ==
    Scalar(IF \E i \in ValidRows(col) : col.data[i] # 0 THEN 1 ELSE 0)

\* plc.reduce.reduce with aggregation all(): nulls are skipped, and a column
\* without valid rows reduces to true
ReduceAll(col) ==
    Scalar(IF \A i \in ValidRows(col) : col.data[i] # 0 THEN 1 ELSE 0)

\* plc.Column.from_scalar(scalar, n)
FromScalar(scalar, n) ==
    PlcColumn([i \in 1..n |-> scalar.value], [i \in 1..n |-> scalar.valid])

\* plc.Column.all_null_like(column, n)
AllNullLike(col, n) == PlcColumn([i \in 1..n |-> 0], [i \in 1..n |-> FALSE])

\* what a rule returns: the column, and for Gather the policy and the map
\* of the backend gather, how many gathers ran and whether one read
\* outside the table (for Strptime, map is the column that is converted)
RuleReturned(col, policy, map, gathers, ub) ==
    [status |-> "ok", error |-> "", col |-> col, policy |-> policy,
     map |-> map, gathers |-> gathers, ub |-> ub]

RuleRaised(error) ==
    [status |-> "raise", error |-> error, col |-> PlcColumn(<<>>, <<>>),
     policy |-> "", map |-> PlcColumn(<<>>, <<>>), gathers |-> 0,
     ub |-> FALSE]

\* the post-processing test that sends only a true All to null
KleeneUnknownAllOnly(is_any, h_result) == ~is_any /\ h_result

\* BooleanFunction.do_evaluate, Any/All: the reduced value that Kleene logic
\* turns into null when the column holds a null
KleeneUnknown(is_any, h_result) ==
    (is_any /\ ~h_result) \/ (~is_any /\ h_result)

\* BooleanFunction.do_evaluate for Any and All on the evaluated child
AnyAll(self, column) ==
    LET ignore_nulls == self.options[1] # 0
        is_any == self.name = "Any"
        result == IF is_any THEN ReduceAny(column) ELSE ReduceAll(column)
        h_result == result.value # 0
    IN  IF ~ignore_nulls /\ NullCount(column) > 0
           /\ KleeneUnknown(is_any, h_result)
        THEN RuleReturned(AllNullLike(column, 1), "", column, 0, FALSE)
        ELSE RuleReturned(FromScalar(result, 1), "", column, 0, FALSE)

\* plc.strings.convert.convert_datetime.is_timestamp: null for a null row
IsTimestamp(col) ==
    PlcColumn([i \in 1..NumRows(col) |->
                  IF col.mask[i] /\ col.data[i] # 0 THEN 1 ELSE 0], col.mask)

\* plc.unary.unary_operation(column, NOT)
UnaryNot(col) ==
    PlcColumn([i \in 1..NumRows(col) |->
                  IF col.mask[i] THEN 1 - col.data[i] ELSE 0], col.mask)

\* plc.copying.boolean_mask_scatter([null], Table([col]), mask): the rows
\* where the mask is true become null
ScatterNull(col, mask) ==
    LET hit(i) == mask.mask[i] /\ mask.data[i] # 0
    IN  PlcColumn([i \in 1..NumRows(col) |->
                      IF hit(i) THEN 0 ELSE col.data[i]],
                  [i \in 1..NumRows(col) |-> col.mask[i] /\ ~hit(i)])

\* the timestamp a string that parses converts to
TimestampOf(code) == 1000 + code

\* plc.strings.convert.convert_datetime.to_timestamps
ToTimestamps(col) ==
    PlcColumn([i \in 1..NumRows(col) |->
                  IF col.mask[i] THEN TimestampOf(col.data[i]) ELSE 0],
              col.mask)

\* the mask of the rows that parse, used as it is
NotTimestampsForgotten(is_timestamps) == is_timestamps

\* StringFunction.do_evaluate, Strptime: not_timestamps
NotTimestamps(is_timestamps) == UnaryNot(is_timestamps)

\* StringFunction.do_evaluate for Strptime on the evaluated first child;
\* map is the column handed to to_timestamps
Strptime(self, col) ==
    LET strict == self.options[2] # 0
        is_timestamps == IsTimestamp(col)
        res == ScatterNull(col, NotTimestamps(is_timestamps))
    IN  IF strict
        THEN IF ReduceAll(is_timestamps).value = 0
             THEN RuleRaised("InvalidOperationError")
             ELSE RuleRaised("NotImplementedError")
        ELSE RuleReturned(ToTimestamps(res), "", res, 0, FALSE)

RECURSIVE MinOf(_)
MinOf(S) ==
    LET x == CHOOSE y \in S : TRUE
    IN  IF S = {x} THEN x
        ELSE LET m == MinOf(S \ {x}) IN IF x < m THEN x ELSE m

\* plc.reduce.minmax: nulls are skipped; both scalars are null when no row
\* is valid
MinMax(col) ==
    IF ValidRows(col) = {} THEN <<NullScalar, NullScalar>>
    ELSE LET vals == {col.data[i] : i \in ValidRows(col)}
         IN  <<Scalar(MinOf(vals)), Scalar(-MinOf({-v : v \in vals}))>>

\* plc.replace.replace_nulls(column, scalar)
ReplaceNulls(col, v) ==
    PlcColumn([i \in 1..NumRows(col) |->
                  IF col.mask[i] THEN col.data[i] ELSE v],
              [i \in 1..NumRows(col) |-> TRUE])

\* the row of the table a gather index reads (0: outside the table); a
\* negative index counts from the end
GatherRow(i, size) ==
    LET at == IF i < 0 THEN i + size ELSE i
    IN  IF 0 <= at /\ at < size THEN at + 1 ELSE 0

\* plc.copying.gather(Table([values]), map, policy): NULLIFY makes the row
\* of an index outside the table null; with DONT_CHECK such a read is
\* undefined
PlcGather(values, map, policy) ==
    LET row(k) == GatherRow(map.data[k], NumRows(values))
    IN  RuleReturned(
            PlcColumn([k \in 1..NumRows(map) |->
                          IF row(k) = 0 THEN 0 ELSE values.data[row(k)]],
                      [k \in 1..NumRows(map) |->
                          row(k) # 0 /\ values.mask[row(k)]]),
            policy, map, 1,
            policy = "DONT_CHECK" /\ \E k \in 1..NumRows(map) : row(k) = 0)

\* the bounds test with hi > n in place of hi >= n
OutOfBoundsOffByOne(lo, hi, n) == hi > n \/ lo < -n

\* Gather.do_evaluate: if hi >= n or lo < -n
OutOfBounds(lo, hi, n) == hi >= n \/ lo < -n

\* Gather.do_evaluate on the evaluated children; n is df.num_rows.  The
\* comparison of None, the minimum of no index, with n raises TypeError.
GatherRule(values, indices, n) ==
    LET minmax == MinMax(indices)
        lo == minmax[1]
        hi == minmax[2]
    IN  IF ~hi.valid THEN RuleRaised("TypeError")
        ELSE IF OutOfBounds(lo.value, hi.value, n) THEN RuleRaised("ValueError")
        ELSE IF NullCount(indices) # 0
        THEN PlcGather(values, ReplaceNulls(indices, n), "NULLIFY")
        ELSE PlcGather(values, indices, "DONT_CHECK")

\* value.as_py() is None
IsNone(value) == value.data = <<>>

\* what the Slice rule returns: the column and the scalars handed to the
\* backend slice
SliceReturned(col, start, stop) ==
    [status |-> "ok", error |-> "", col |-> col, start |-> start,
     stop |-> stop]

\* the position in a string of len characters an index of a slice names:
\* a negative index counts from the end, and positions outside the string
\* are clamped to it
SlicePosition(i, len) ==
    IF i < 0 THEN (IF len + i < 0 THEN 0 ELSE len + i)
    ELSE IF i > len THEN len ELSE i

\* plc.strings.slice.slice_strings(column, start, stop): the characters
\* [start, stop) of every string, to the end for a null stop; a null row
\* stays null
SliceStrings(col, start, stop) ==
    LET sub(s) ==
            LET b == SlicePosition(start.value, Len(s))
                e == IF stop.valid THEN SlicePosition(stop.value, Len(s))
                     ELSE Len(s)
            IN  IF b < e THEN SubSeq(s, b + 1, e) ELSE <<>>
    IN  PlcColumn([i \in 1..NumRows(col) |->
                      IF col.mask[i] THEN sub(col.data[i]) ELSE <<>>],
                  col.mask)

\* the test with length > -start in place of length >= -start
SliceToEndStrict(start, length) == start < 0 /\ length > -start

\* StringFunction.do_evaluate, Slice: length and start < 0 and
\* length >= -start (length is known to be truthy)
SliceToEnd(start, length) == start < 0 /\ length >= -start

\* StringFunction.do_evaluate, Slice: the stop computed on the host
SliceStop(start, length) ==
    IF ~IsNone(length) /\ length.data[1] = 0 THEN Scalar(start)
    ELSE IF IsNone(length) THEN NullScalar
    ELSE IF SliceToEnd(start, length.data[1]) THEN NullScalar
    ELSE Scalar(start + length.data[1])

\* StringFunction.do_evaluate for Slice on the evaluated first child
Slice(self, column) ==
    LET start == self.children[2].value.data[1]
        length == self.children[3].value
        stop == SliceStop(start, length)
    IN  SliceReturned(SliceStrings(column, Scalar(start), stop),
                      Scalar(start), stop)

\* float("nan") among the values of a floating column
NaN == -99

\* Column.nan_count: the rows that are not null and hold NaN
NanCount(col) == Cardinality({i \in ValidRows(col) : col.data[i] = NaN})

\* Column.mask_nans: every NaN becomes null
MaskNans(col) ==
    PlcColumn([i \in 1..NumRows(col) |->
                  IF col.data[i] = NaN THEN 0 ELSE col.data[i]],
              [i \in 1..NumRows(col) |-> col.mask[i] /\ col.data[i] # NaN])

\* what an Agg returns: the column and the columns handed to
\* plc.reduce.reduce, in the order of the calls
AggReturned(col, reduced) ==
    [status |-> "ok", error |-> "", col |-> col, reduced |-> reduced]

\* Agg._reduce with the request min or max: plc.reduce.reduce skips nulls
\* and gives a null scalar when no row is valid
Reduce(self, column, request) ==
    AggReturned(FromScalar(IF request = "MIN" THEN MinMax(column)[1]
                           ELSE MinMax(column)[2], 1),
                <<column>>)

\* the column reduced as it is
UnmaskedForReduce(column) == column

\* Agg._min, Agg._max: if column.nan_count > 0: column = column.mask_nans()
MaskedForReduce(column) ==
    IF NanCount(column) > 0 THEN MaskNans(column) ELSE column

\* Agg._min and Agg._max with propagate_nans = self.options
AggMinMax(self, column) ==
    IF Truthy(self.options) /\ NanCount(column) > 0
    THEN AggReturned(FromScalar(Scalar(NaN), 1), <<>>)
    ELSE Reduce(self, MaskedForReduce(column),
                IF self.name = "min" THEN "MIN" ELSE "MAX")

\* Column(obj, is_sorted=..., order=..., null_order=...): the plc.Column
\* and the sortedness metadata the container caches
ColumnWith(obj, is_sorted, order, null_order) ==
    [data |-> obj.data, mask |-> obj.mask, is_sorted |-> is_sorted,
     order |-> order, null_order |-> null_order]

\* Column(obj): the metadata of a column not known to be sorted
NewColumn(obj) == ColumnWith(obj, "NO", "ASCENDING", "BEFORE")

\* Column.sorted_like(like): the metadata of like on this column
SortedLike(column, like) ==
    ColumnWith(column, like.is_sorted, like.order, like.null_order)

\* what Sort and Cast return
ColumnReturned(col) == [status |-> "ok", error |-> "", col |-> col]

\* sorting.sort_order([descending], nulls_last=[nulls_last], num_keys=1):
\* the order, and the null order that puts the nulls last or first in it
SortOrder(descending, nulls_last) ==
    [order |-> IF descending THEN "DESCENDING" ELSE "ASCENDING",
     null_order |-> IF descending = nulls_last THEN "BEFORE" ELSE "AFTER"]

\* the rows of a column in ascending order of (key, row)
RECURSIVE SortedRows(_, _)
SortedRows(rows, key) ==
    IF rows = {} THEN <<>>
    ELSE LET first == CHOOSE r \in rows :
                          \A q \in rows :
                              key[r] < key[q] \/ (key[r] = key[q] /\ r <= q)
         IN  <<first>> \o SortedRows(rows \ {first}, key)

\* plc.sorting.sort / stable_sort of a table of one column: a null is
\* smaller than every value with BEFORE and greater with AFTER
PlcSort(obj, order, null_order) ==
    LET sign == IF order = "ASCENDING" THEN 1 ELSE -1
        null_key == IF null_order = "BEFORE" THEN -1000 ELSE 1000
        key == [i \in 1..NumRows(obj) |->
                   sign * (IF obj.mask[i] THEN obj.data[i] ELSE null_key)]
        rows == SortedRows(1..NumRows(obj), key)
    IN  PlcColumn([k \in 1..NumRows(obj) |-> obj.data[rows[k]]],
                  [k \in 1..NumRows(obj) |-> obj.mask[rows[k]]])

\* Sort.do_evaluate on the evaluated child
SortRule(self, column) ==
    LET so == SortOrder(self.options[3] # 0, self.options[2] # 0)
    IN  ColumnReturned(
            ColumnWith(PlcSort(column, so.order, so.null_order), "YES",
                       so.order, so.null_order))

\* plc.unary.cast(column, dtype): a number is true if it is not zero, and
\* the numeric types hold the values of the model exactly
PlcCast(obj, dtype) ==
    PlcColumn([i \in 1..NumRows(obj) |->
                  IF dtype = "bool" /\ obj.data[i] # 0 THEN 1
                  ELSE obj.data[i]],
              obj.mask)

\* Cast.do_evaluate without sorted_like
CastRuleUnsorted(self, column) ==
    ColumnReturned(NewColumn(PlcCast(column, self.dtype)))

\* Cast.do_evaluate on the evaluated child
CastRule(self, column) ==
    ColumnReturned(SortedLike(NewColumn(PlcCast(column, self.dtype)), column))

\* two rows of a column hold the same value: nulls are equal to each other
\* (NullEquality.EQUAL), and so are NaNs (NanEquality.ALL_EQUAL)
SameRow(col, i, j) ==
    /\ col.mask[i] = col.mask[j]
    /\ col.mask[i] => col.data[i] = col.data[j]

\* plc.stream_compaction.distinct_indices(table, keep, EQUAL, ALL_EQUAL):
\* the (0-based) indices of the rows that are kept
DistinctIndices(col, keep) ==
    LET n == NumRows(col)
    IN  {i - 1 : i \in
           {i \in 1..n :
              CASE keep = "KEEP_FIRST" ->
                     \A j \in 1..n : SameRow(col, i, j) => i <= j
                [] keep = "KEEP_LAST" ->
                     \A j \in 1..n : SameRow(col, i, j) => j <= i
                [] keep = "KEEP_NONE" ->
                     \A j \in 1..n : SameRow(col, i, j) => i = j}}

\* plc.copying.scatter([source], indices, Table([target])): the target with
\* the source scalar in the rows of the indices
Scatter(source, indices, target) ==
    PlcColumn([i \in 1..NumRows(target) |->
                  IF i - 1 \in indices THEN source.value ELSE target.data[i]],
              [i \in 1..NumRows(target) |->
                  IF i - 1 \in indices THEN source.valid ELSE target.mask[i]])

\* _distinct keeping the first row of every value whatever keep is
DistinctKeepFirst(column, keep, source_value, target_value) ==
    RuleReturned(
        Scatter(source_value, DistinctIndices(column, "KEEP_FIRST"),
                FromScalar(target_value, NumRows(column))),
        "", column, 0, FALSE)

\* BooleanFunction._distinct
Distinct(column, keep, source_value, target_value) ==
    RuleReturned(
        Scatter(source_value, DistinctIndices(column, keep),
                FromScalar(target_value, NumRows(column))),
        "", column, 0, FALSE)

DistinctFns ==
    {"IsFirstDistinct", "IsLastDistinct", "IsUnique", "IsDuplicated"}

\* BooleanFunction.do_evaluate for IsFirstDistinct, IsLastDistinct, IsUnique
\* and IsDuplicated on the evaluated child
DistinctRule(self, column) ==
    CASE self.name = "IsFirstDistinct" ->
             Distinct(column, "KEEP_FIRST", Scalar(1), Scalar(0))
      [] self.name = "IsLastDistinct" ->
             Distinct(column, "KEEP_LAST", Scalar(1), Scalar(0))
      [] self.name = "IsUnique" ->
             Distinct(column, "KEEP_NONE", Scalar(1), Scalar(0))
      [] self.name = "IsDuplicated" ->
             Distinct(column, "KEEP_NONE", Scalar(0), Scalar(1))

\* the codes of the floating-point values +inf and -inf
PosInf == 98
NegInf == -98

\* plc.search.contains(haystack, needles): for every needle whether the
\* haystack holds it (NaN is found in a haystack that holds NaN); the row
\* of a null needle is null
PlcContains(haystack, needles) ==
    PlcColumn([i \in 1..NumRows(needles) |->
                  IF needles.mask[i] /\ needles.data[i] \in haystack
                  THEN 1 ELSE 0],
              needles.mask)

\* plc.unary.unary_operation(column, NOT)
PlcNot(col) ==
    PlcColumn([i \in 1..NumRows(col) |->
                  IF col.mask[i] /\ col.data[i] = 0 THEN 1 ELSE 0],
              col.mask)

\* BooleanFunction.do_evaluate for IsFinite and IsInfinite: needles is the
\* column the child evaluates to; the child is evaluated only when its
\* dtype is floating
IsFiniteRule(self, needles, frame) ==
    LET is_finite == self.name = "IsFinite"
    IN  IF ~IsFloatingPoint(self.children[1].dtype)
        THEN RuleReturned(
                 FromScalar(Scalar(IF is_finite THEN 1 ELSE 0),
                            frame.num_rows),
                 "", needles, 0, FALSE)
        ELSE LET to_search == IF is_finite THEN {NegInf, PosInf, NaN}
                              ELSE {NegInf, PosInf}
                 result == PlcContains(to_search, needles)
             IN  RuleReturned(IF is_finite THEN PlcNot(result) ELSE result,
                              "", needles, 0, FALSE)

\* the largest 32-bit integer
Int32Max == 2147483647

\* a result stored in 16 bits
Int16Result(x) == ((x + 32768) % 65536) - 32768

\* a result of output type INT32: plc.DataType(plc.TypeId.INT32)
Int32Result(x) ==
    IF x > Int32Max THEN x - Int32Max - Int32Max - 2
    ELSE IF x < -Int32Max - 1 THEN x + Int32Max + Int32Max + 2
    ELSE x

\* plc.datetime.extract_datetime_component on a column of the sub-second
\* parts of timestamps, in nanoseconds
ExtractDatetimeComponent(col, component) ==
    LET part(t) ==
            CASE component = "MILLISECOND" -> (t \div 1000000) % 1000
              [] component = "MICROSECOND" -> (t \div 1000) % 1000
              [] component = "NANOSECOND" -> t % 1000
    IN  PlcColumn([i \in 1..NumRows(col) |->
                      IF col.mask[i] THEN part(col.data[i]) ELSE 0],
                  col.mask)

\* plc.binaryop.binary_operation(column, scalar, MUL, INT32)
MulScalar(col, k) ==
    PlcColumn([i \in 1..NumRows(col) |->
                  IF col.mask[i] THEN Int32Result(col.data[i] * k) ELSE 0],
              col.mask)

\* plc.binaryop.binary_operation(lhs, rhs, ADD, INT32)
AddColumns(lhs, rhs) ==
    PlcColumn([i \in 1..NumRows(lhs) |->
                  IF lhs.mask[i] /\ rhs.mask[i]
                  THEN Int32Result(lhs.data[i] + rhs.data[i]) ELSE 0],
              [i \in 1..NumRows(lhs) |-> lhs.mask[i] /\ rhs.mask[i]])

\* what the rule of Microsecond and Nanosecond returns: the column, and
\* the columns computed on the way
TemporalReturned(col, steps) ==
    [status |-> "ok", error |-> "", col |-> col, steps |-> steps]

\* TemporalFunction.do_evaluate for Microsecond and Nanosecond
TemporalRule(self, column) ==
    LET millis == ExtractDatetimeComponent(column, "MILLISECOND")
        micros == ExtractDatetimeComponent(column, "MICROSECOND")
        nanos == ExtractDatetimeComponent(column, "NANOSECOND")
    IN  IF self.name = "Microsecond"
        THEN LET millis_as_micros == MulScalar(millis, 1000)
                 total_micros == AddColumns(micros, millis_as_micros)
             IN  TemporalReturned(total_micros,
                                  <<millis_as_micros, total_micros>>)
        ELSE LET millis_as_nanos == MulScalar(millis, 1000000)
                 micros_as_nanos == MulScalar(micros, 1000)
                 total_nanos == AddColumns(nanos, millis_as_nanos)
             IN  TemporalReturned(AddColumns(total_nanos, micros_as_nanos),
                                  <<millis_as_nanos, micros_as_nanos,
                                    total_nanos,
                                    AddColumns(total_nanos, micros_as_nanos)>>)

\* do_evaluate of the node on the columns its children evaluated to
Rule(self, columns, frame) ==
    CASE self.kind = "BooleanFunction" /\ self.name \in {"Any", "All"} ->
             AnyAll(self, columns[1])
      [] self.kind = "BooleanFunction" /\ self.name \in DistinctFns ->
             DistinctRule(self, columns[1])
      [] self.kind = "BooleanFunction"
           /\ self.name \in {"IsFinite", "IsInfinite"} ->
             IsFiniteRule(self, columns[1], frame)
      [] self.kind = "TemporalFunction" -> TemporalRule(self, columns[1])
      [] self.kind = "Sort" -> SortRule(self, columns[1])
      [] self.kind = "Cast" -> CastRule(self, columns[1])
      [] self.kind = "Agg" /\ self.name \in {"min", "max"} ->
             AggMinMax(self, columns[1])
      [] self.kind = "StringFunction" /\ self.name = "Slice" ->
             Slice(self, columns[1])
      [] self.kind = "StringFunction" -> Strptime(self, columns[1])
      [] self.kind = "Gather" ->
             GatherRule(columns[1], columns[2], frame.num_rows)

\* the columns of at most n rows with data from values and any nulls
Columns(values, n) ==
    UNION {{PlcColumn([i \in 1..k |-> IF m[i] THEN d[i] ELSE 0], m) :
               d \in [1..k -> values], m \in [1..k -> BOOLEAN]} : k \in 0..n}

\* the caller holds the columns the children of a node evaluate to
InitColumns(columns) ==
    /\ pc = "build"
    /\ expr = NoneExpr
    /\ other = NoneExpr
    /\ depth = 0
    /\ context = "FRAME"
    /\ mapping = NoMapping
    /\ df = NoFrame
    /\ args \in columns
    /\ hash_value = <<>>
    /\ hash_calls = <<>>
    /\ ret = NoRet

\* the caller constructs the node whose rule runs
ConstructNode(results) ==
    /\ expr = NoneExpr
    /\ Build(results, 1 + Len(args))

\* the numbers of rows of the frames on which the first child of a node
\* evaluates to the column: a Filter keeps some of the rows of the frame,
\* any other child here evaluates to one row for each row of the frame
FrameRows(self, column) ==
    IF self.children[1].kind = "Filter" THEN NumRows(column)..MaxRows
    ELSE {NumRows(column)}

\* expr.do_evaluate(df) with the children evaluating to args
CallDoEvaluate ==
    /\ pc = "build"
    /\ expr # NoneExpr
    /\ \E frame \in {[num_rows |-> n, columns |-> {"a", "b"},
                      data_ok |-> TRUE] : n \in FrameRows(expr, args[1])} :
          /\ df' = frame
          /\ ret' = Rule(expr, args, frame)
    /\ pc' = "returned"
    /\ UNCHANGED <<expr, other, depth, context, mapping, args,
                   hash_value, hash_calls>>

(***************************************************************************)
(* SpecStrptime: Strptime on a column of strings.                          *)
(***************************************************************************)
StrptimeNodes ==
    {StringFunction("datetime", "Strptime", <<1, strict, 1, 0>>,
                    <<Col("str", "a").node>>) : strict \in {0, 1}}

NextStrptime ==
    \/ ConstructNode(StrptimeNodes)
    \/ CallDoEvaluate

SpecStrptime ==
    InitColumns({<<c>> : c \in Columns(0..2, MaxRows)})
    /\ [][NextStrptime]_vars

\* a valid row that does not parse
FailsToParse(col) == \E i \in ValidRows(col) : col.data[i] = 0

\* C7: strict Strptime raises InvalidOperationError if a row fails to
\* parse, and if every row parses it returns the converted timestamp
\* column: every valid row holds the timestamp of its string.
C7_StrictStrptime ==
    (pc = "returned" /\ expr.options[2] # 0) =>
        IF FailsToParse(args[1])
        THEN ret.status = "raise" /\ ret.error = "InvalidOperationError"
        ELSE /\ ret.status = "ok"
             /\ ret.col = ToTimestamps(args[1])


\* C16: Strptime that is not strict never raises; the column handed to the
\* conversion has a null at every row that is null or fails to parse and
\* the string of every other row, and the result has one row per input
\* row: null at exactly the rows that are null or fail to parse, the
\* timestamp of the string at every other row.
C16_NonStrictStrptime ==
    (pc = "returned" /\ expr.options[2] = 0) =>
        LET col == args[1]
            parses(i) == col.mask[i] /\ col.data[i] # 0
        IN  /\ ret.status = "ok"
            /\ NumRows(ret.map) = NumRows(col)
            /\ NumRows(ret.col) = NumRows(col)
            /\ \A i \in 1..NumRows(col) :
                  /\ ret.map.mask[i] = parses(i)
                  /\ ret.col.mask[i] = parses(i)
                  /\ parses(i) =>
                        /\ ret.map.data[i] = col.data[i]
                        /\ ret.col.data[i] = 1000 + col.data[i]

\* a string that parses, one that does not, and a null
C16_Witness ==
    /\ pc = "returned"
    /\ expr.options[2] = 0
    /\ args[1] = PlcColumn(<<1, 0, 0>>, <<TRUE, TRUE, FALSE>>)
    /\ ret.status = "ok"
    /\ ret.col = PlcColumn(<<1001, 0, 0>>, <<TRUE, FALSE, FALSE>>)

(***************************************************************************)
(* SpecAnyAll: Any and All on a boolean column.                            *)
(***************************************************************************)
AnyAllNodes ==
    {BooleanFunction("bool", name, <<ignore_nulls>>,
                     <<Col("bool", "a").node>>) :
        name \in {"Any", "All"}, ignore_nulls \in {0, 1}}

NextAnyAll ==
    \/ ConstructNode(AnyAllNodes)
    \/ CallDoEvaluate

SpecAnyAll ==
    InitColumns({<<c>> : c \in Columns({0, 1}, MaxRows)})
    /\ [][NextAnyAll]_vars

SomeTrue(col) == \E i \in ValidRows(col) : col.data[i] = 1
SomeFalse(col) == \E i \in ValidRows(col) : col.data[i] = 0
SomeNull(col) == \E i \in 1..NumRows(col) : ~col.mask[i]

\* a column of one row: true, false or null
OneRow(col, v) ==
    /\ NumRows(col) = 1
    /\ IF v = "null" THEN ~col.mask[1]
       ELSE col.mask[1] /\ col.data[1] = (IF v = "true" THEN 1 ELSE 0)

\* C8: with ignore_nulls false, Any is true if some value is true,
\* otherwise null if some value is null, otherwise false; All is false if
\* some value is false, otherwise null if some value is null, otherwise
\* true.
C8_Kleene ==
    (pc = "returned" /\ expr.options[1] = 0) =>
        /\ ret.status = "ok"
        /\ expr.name = "Any" =>
              OneRow(ret.col, IF SomeTrue(args[1]) THEN "true"
                              ELSE IF SomeNull(args[1]) THEN "null"
                              ELSE "false")
        /\ expr.name = "All" =>
              OneRow(ret.col, IF SomeFalse(args[1]) THEN "false"
                              ELSE IF SomeNull(args[1]) THEN "null"
                              ELSE "true")

\* any([false, null]) returned null
C8_Witness ==
    /\ pc = "returned"
    /\ expr.name = "Any"
    /\ expr.options[1] = 0
    /\ args[1] = PlcColumn(<<0, 0>>, <<TRUE, FALSE>>)
    /\ OneRow(ret.col, "null")

(***************************************************************************)
(* SpecGather: Gather on a column of values and a column of indices.       *)
(***************************************************************************)
\* the frame's column of n rows, all valid or with a null first row
ValueColumns ==
    UNION {{PlcColumn([i \in 1..n |-> IF i = 1 /\ ~first THEN 0 ELSE 10 + i],
                      [i \in 1..n |-> i > 1 \/ first]) :
               first \in BOOLEAN} : n \in 0..MaxRows}

IndexColumns == Columns(-(MaxRows + 1)..MaxRows, MaxIndices)

GatherNodes ==
    {Gather("i64", Col("i64", "a").node, Col("i64", "b").node)}

NextGather ==
    \/ ConstructNode(GatherNodes)
    \/ CallDoEvaluate

SpecGather ==
    InitColumns({<<v, i>> : v \in ValueColumns, i \in IndexColumns})
    /\ [][NextGather]_vars

\* the non-null indices
Indices(col) == {col.data[i] : i \in ValidRows(col)}

InBounds(col, n) == \A i \in Indices(col) : -n <= i /\ i < n

\* C9: if the minimum index is below -n or the maximum index is at least n,
\* Gather raises the out-of-bounds ValueError and no backend gather runs;
\* if all non-null indices lie in [-n, n) it does not raise that error,
\* and no gather reads outside the table.
C9_BoundsCheck ==
    pc = "returned" =>
        LET n == df.num_rows
        IN  /\ ~InBounds(args[2], n) =>
                  /\ ret.status = "raise"
                  /\ ret.error = "ValueError"
                  /\ ret.gathers = 0
            /\ InBounds(args[2], n) =>
                  ~(ret.status = "raise" /\ ret.error = "ValueError")
            /\ ~ret.ub

\* an index equal to n was rejected
C9_Witness ==
    /\ pc = "returned"
    /\ df.num_rows = 2
    /\ args[2] = PlcColumn(<<0, 2>>, <<TRUE, TRUE>>)
    /\ ret.status = "raise"
    /\ ret.error = "ValueError"

\* C10: for every index column with at least one null whose non-null
\* indices are in bounds, Gather replaces each null index by a sentinel
\* outside the valid range, gathers with NULLIFY, and the output rows at
\* null-index positions are null while the others hold the gathered row;
\* DONT_CHECK is used only when the index column has no nulls.
C10_NullIndices ==
    pc = "returned" =>
        LET n == df.num_rows
            values == args[1]
            indices == args[2]
        IN  /\ (NullCount(indices) > 0 /\ InBounds(indices, n)) =>
                  /\ ret.status = "ok"
                  /\ ret.policy = "NULLIFY"
                  /\ \A k \in 1..NumRows(indices) :
                        IF indices.mask[k]
                        THEN /\ ret.map.data[k] = indices.data[k]
                             /\ ret.col.mask[k]
                                  = values.mask[GatherRow(indices.data[k], n)]
                             /\ ret.col.data[k]
                                  = values.data[GatherRow(indices.data[k], n)]
                        ELSE /\ ~InBounds(PlcColumn(<<ret.map.data[k]>>,
                                                    <<TRUE>>), n)
                             /\ ~ret.col.mask[k]
            /\ (ret.status = "ok" /\ ret.policy = "DONT_CHECK") =>
                  NullCount(indices) = 0

(***************************************************************************)
(* SpecSlice: Slice on a column of strings.  A string is the sequence of   *)
(* its characters.                                                         *)
(***************************************************************************)
\* the strings of at most n characters
Strings(n) == UNION {[1..k -> {1, 2}] : k \in 0..n}

\* the columns of at most n strings, any of them null
StringColumns(n) ==
    UNION {{PlcColumn([i \in 1..k |-> IF m[i] THEN d[i] ELSE <<>>], m) :
               d \in [1..k -> Strings(MaxStrLen)], m \in [1..k -> BOOLEAN]} :
           k \in 0..n}

\* the literal lengths: None, zero, positive, and one negative
SliceLengths ==
    {LiteralNone("i64")} \cup {Literal("i64", v) : v \in -1..(MaxStrLen + 1)}

SliceNodes ==
    {StringFunction("str", "Slice", <<>>,
                    <<Col("str", "a").node, Literal("i64", start).node,
                      length.node>>) :
        start \in -MaxStrLen..MaxStrLen, length \in SliceLengths}

\* the caller constructs a Slice over the column and two literals
ConstructSlice ==
    /\ expr = NoneExpr
    /\ Build(SliceNodes, 4)

NextSlice ==
    \/ ConstructSlice
    \/ CallDoEvaluate

SpecSlice ==
    InitColumns({<<c>> : c \in StringColumns(MaxStrRows)})
    /\ [][NextSlice]_vars

\* the at most count characters of s from offset on (count -1: all of them)
CharsFrom(s, offset, count) ==
    LET rest == Len(s) - offset
        n == IF rest < 0 THEN 0
             ELSE IF count < 0 \/ count > rest THEN rest ELSE count
    IN  [k \in 1..n |-> s[offset + k]]

\* C11: for a literal start and a length that is absent, zero or positive,
\* the stop handed to the backend is start if length is 0, null (unbounded)
\* if length is absent or start < 0 and length >= -start, and start + length
\* otherwise; every null row stays null, and for every string of at least
\* -start characters the result is the at most length characters from
\* offset start on (from the end if start is negative), empty if length
\* is 0.
C11_Slice ==
    (/\ pc = "returned"
     /\ \/ IsNone(expr.children[3].value)
        \/ expr.children[3].value.data[1] >= 0)
    => LET start == expr.children[2].value.data[1]
           absent == IsNone(expr.children[3].value)
           length == IF absent THEN -1 ELSE expr.children[3].value.data[1]
           column == args[1]
       IN  /\ ret.status = "ok"
           /\ ret.start = Scalar(start)
           /\ ret.stop = (IF length = 0 THEN Scalar(start)
                          ELSE IF absent \/ (start < 0 /\ length >= -start)
                          THEN NullScalar
                          ELSE Scalar(start + length))
           /\ NumRows(ret.col) = NumRows(column)
           /\ ret.col.mask = column.mask
           /\ \A i \in ValidRows(column) :
                 LET s == column.data[i]
                     offset == IF start < 0 THEN Len(s) + start ELSE start
                 IN  Len(s) >= -start =>
                        /\ ret.col.data[i] = CharsFrom(s, offset, length)
                        /\ length = 0 => ret.col.data[i] = <<>>

\* the last two characters of a string of three, with a length that
\* reaches the end exactly
C11_Witness ==
    /\ pc = "returned"
    /\ expr.children[2].value.data[1] = -2
    /\ expr.children[3].value.data = <<2>>
    /\ args[1] = PlcColumn(<< <<1, 1, 2>> >>, <<TRUE>>)
    /\ ret.status = "ok"
    /\ ~ret.stop.valid
    /\ ret.col.data[1] = <<1, 2>>

(***************************************************************************)
(* SpecMinMax: whole-frame min and max on a floating column.               *)
(***************************************************************************)
MinMaxNodes ==
    {Agg("f64", name, <<propagate_nans>>, <<Col("f64", "a").node>>) :
        name \in {"min", "max"}, propagate_nans \in {0, 1}}

NextMinMax ==
    \/ ConstructNode(MinMaxNodes)
    \/ CallDoEvaluate

SpecMinMax ==
    InitColumns({<<c>> : c \in Columns({1, 2, NaN}, MaxRows)})
    /\ [][NextMinMax]_vars

\* the values of the rows that are neither null nor NaN
Numbers(col) == {col.data[i] : i \in ValidRows(col)} \ {NaN}

\* the column of one row that holds the least (min) or greatest (max) of
\* the values, null if there is none
Extreme(name, values) ==
    IF values = {} THEN PlcColumn(<<0>>, <<FALSE>>)
    ELSE PlcColumn(<<CHOOSE v \in values :
                        \A w \in values :
                            IF name = "min" THEN v <= w ELSE v >= w>>,
                   <<TRUE>>)

\* C14: on a floating column, min and max with propagate_nans return NaN
\* without any backend reduction if the column holds a NaN; without
\* propagate_nans every NaN is made null before the one reduction and the
\* result is the min or max of the values that are neither NaN nor null;
\* on a column without NaN both settings reduce the column as it is.
C14_MinMax ==
    pc = "returned" =>
        LET column == args[1]
            has_nan == \E i \in ValidRows(column) : column.data[i] = NaN
            propagate == expr.options[1] # 0
        IN  /\ ret.status = "ok"
            /\ (propagate /\ has_nan) =>
                  /\ ret.col = PlcColumn(<<NaN>>, <<TRUE>>)
                  /\ ret.reduced = <<>>
            /\ (~propagate /\ has_nan) =>
                  /\ Len(ret.reduced) = 1
                  /\ NumRows(ret.reduced[1]) = NumRows(column)
                  /\ \A i \in 1..NumRows(column) :
                        IF column.mask[i] /\ column.data[i] # NaN
                        THEN /\ ret.reduced[1].mask[i]
                             /\ ret.reduced[1].data[i] = column.data[i]
                        ELSE ~ret.reduced[1].mask[i]
                  /\ ret.col = Extreme(expr.name, Numbers(column))
            /\ ~has_nan =>
                  /\ ret.reduced = <<column>>
                  /\ ret.col = Extreme(expr.name, Numbers(column))

\* max without propagate_nans of [1, NaN, 2] is 2, reduced from
\* [1, null, 2]
C14_Witness ==
    /\ pc = "returned"
    /\ expr.name = "max"
    /\ expr.options[1] = 0
    /\ args[1] = PlcColumn(<<1, NaN, 2>>, <<TRUE, TRUE, TRUE>>)
    /\ ret.reduced = <<PlcColumn(<<1, 0, 2>>, <<TRUE, FALSE, TRUE>>)>>
    /\ ret.col = PlcColumn(<<2>>, <<TRUE>>)

(***************************************************************************)
(* SpecCast: Sort and Cast on a column and its sortedness metadata.  The   *)
(* parent of a node is evaluated on the column the node returned.          *)
(***************************************************************************)
\* Sort options (stable, nulls_last, descending)
SortNodes ==
    {Sort("i64", <<stable, nulls_last, descending>>, Col("i64", "a").node) :
        stable \in {0, 1}, nulls_last \in {0, 1}, descending \in {0, 1}}

CastNodes == {Cast(to, Col("i64", "a").node) : to \in {"i64", "f64", "bool"}}

\* the parent of the node is constructed and evaluated next: its child
\* evaluates to the column just returned
EvaluateParent ==
    /\ pc = "returned"
    /\ ret.status = "ok"
    /\ args' = <<ret.col>>
    /\ expr' = NoneExpr
    /\ ret' = NoRet
    /\ pc' = "build"
    /\ UNCHANGED <<other, depth, context, mapping, df, hash_value,
                   hash_calls>>

NextCast ==
    \/ ConstructNode(SortNodes \cup CastNodes)
    \/ CallDoEvaluate
    \/ EvaluateParent

SpecCast ==
    InitColumns({<<NewColumn(c)>> : c \in Columns({0, 1, 2}, MaxRows)})
    /\ [][NextCast]_vars

\* C17: the column Cast returns carries the is_sorted flag, the order and
\* the null order of the column its child evaluated to, whether that
\* column is flagged sorted (as the result of a Sort is) or not, and has
\* as many rows.
C17_CastSortedness ==
    (pc = "returned" /\ expr.kind = "Cast") =>
        /\ ret.status = "ok"
        /\ NumRows(ret.col) = NumRows(args[1])
        /\ ret.col.mask = args[1].mask
        /\ ret.col.is_sorted = args[1].is_sorted
        /\ ret.col.order = args[1].order
        /\ ret.col.null_order = args[1].null_order

\* a column sorted ascending with the nulls last, then cast, is flagged
\* ascending with the nulls last
C17_Witness ==
    /\ pc = "returned"
    /\ expr.kind = "Cast"
    /\ expr.dtype = "f64"
    /\ args[1] = ColumnWith(PlcColumn(<<1, 2, 0>>, <<TRUE, TRUE, FALSE>>),
                            "YES", "ASCENDING", "AFTER")
    /\ ret.col = args[1]

(***************************************************************************)
(* SpecDistinct: IsFirstDistinct, IsLastDistinct, IsUnique and             *)
(* IsDuplicated on a column of integers.                                   *)
(***************************************************************************)
DistinctNodes ==
    {BooleanFunction("bool", name, <<>>, <<Col("i64", "a").node>>) :
        name \in DistinctFns}

NextDistinct ==
    \/ ConstructNode(DistinctNodes)
    \/ CallDoEvaluate

SpecDistinct ==
    InitColumns({<<c>> : c \in Columns({1, 2}, MaxRows)})
    /\ [][NextDistinct]_vars

\* the rows of the column that hold the value of row i (null is a value)
Occurrences(col, i) ==
    {j \in 1..NumRows(col) :
        IF col.mask[i] THEN col.mask[j] /\ col.data[j] = col.data[i]
        ELSE ~col.mask[j]}

FirstRow(rows) == CHOOSE i \in rows : \A j \in rows : i <= j
LastRow(rows) == CHOOSE i \in rows : \A j \in rows : j <= i

\* C22: is_first_distinct is true exactly at the first occurrence of each
\* distinct value and is_last_distinct exactly at the last; is_unique is
\* true exactly at the values that occur once; is_duplicated is the
\* elementwise complement of is_unique.  Every output row is a non-null
\* boolean, one per input row.
C22_Distinct ==
    (pc = "returned" /\ expr.name \in DistinctFns) =>
        LET column == args[1]
            occ(i) == Occurrences(column, i)
            expected(i) ==
                CASE expr.name = "IsFirstDistinct" -> i = FirstRow(occ(i))
                  [] expr.name = "IsLastDistinct" -> i = LastRow(occ(i))
                  [] expr.name = "IsUnique" -> Cardinality(occ(i)) = 1
                  [] expr.name = "IsDuplicated" -> ~(Cardinality(occ(i)) = 1)
        IN  /\ ret.status = "ok"
            /\ NumRows(ret.col) = NumRows(column)
            /\ \A i \in 1..NumRows(column) :
                  /\ ret.col.mask[i]
                  /\ ret.col.data[i] = (IF expected(i) THEN 1 ELSE 0)

\* is_first_distinct([1, 1, 2]) returned [true, false, true]
C22_Witness ==
    /\ pc = "returned"
    /\ expr.name = "IsFirstDistinct"
    /\ args[1] = PlcColumn(<<1, 1, 2>>, <<TRUE, TRUE, TRUE>>)
    /\ ret.col = PlcColumn(<<1, 0, 1>>, <<TRUE, TRUE, TRUE>>)

(***************************************************************************)
(* SpecGatherFiltered: Gather on the values a Filter evaluates to and a    *)
(* column of indices.                                                      *)
(***************************************************************************)
FilteredValues ==
    Filter("i64", Col("i64", "a").node, Col("bool", "c").node)

GatherFilteredNodes ==
    {Gather("i64", FilteredValues.node, Col("i64", "b").node)}

\* the caller constructs a Gather over a Filter and a column
ConstructGatherFiltered ==
    /\ expr = NoneExpr
    /\ Build(GatherFilteredNodes, 5)

NextGatherFiltered ==
    \/ ConstructGatherFiltered
    \/ CallDoEvaluate

SpecGatherFiltered ==
    InitColumns({<<v, i>> : v \in ValueColumns, i \in IndexColumns})
    /\ [][NextGatherFiltered]_vars

\* C26: whenever Gather takes the unchecked backend path, every index lies
\* in [-m, m), m being the number of rows of the evaluated values column,
\* and the gather reads no row outside that column.
C26_UncheckedSafe ==
    (pc = "returned" /\ ret.status = "ok" /\ ret.policy = "DONT_CHECK") =>
        /\ InBounds(args[2], NumRows(args[1]))
        /\ ~ret.ub

(***************************************************************************)
(* SpecIsFinite: IsFinite and IsInfinite on a floating or integer column,  *)
(* or on the rows a Filter keeps of one.                                   *)
(***************************************************************************)
IsFiniteChildren ==
    {Col(t, "a").node : t \in {"f64", "i64"}}
    \cup {Filter(t, Col(t, "a").node, Col("bool", "c").node).node :
             t \in {"f64", "i64"}}

IsFiniteNodes ==
    {BooleanFunction("bool", name, <<>>, <<child>>) :
        name \in {"IsFinite", "IsInfinite"}, child \in IsFiniteChildren}

\* the caller constructs IsFinite or IsInfinite over a column or a Filter
ConstructIsFinite ==
    /\ expr = NoneExpr
    /\ Build(IsFiniteNodes, 4)

NextIsFinite ==
    \/ ConstructIsFinite
    \/ CallDoEvaluate

SpecIsFinite ==
    InitColumns({<<c>> : c \in Columns({1, PosInf, NegInf, NaN}, MaxIndices)})
    /\ [][NextIsFinite]_vars

\* C29: IsFinite and IsInfinite return one row for each row of the column
\* the child evaluates to; for a floating child is_finite is false exactly
\* at +inf, -inf and NaN and is_infinite is true exactly at +inf and
\* -inf; for any other child every row is true (is_finite) or false
\* (is_infinite).
C29_FiniteRows ==
    (pc = "returned" /\ expr.name \in {"IsFinite", "IsInfinite"}) =>
        LET child == args[1]
            floating == IsFloatingPoint(expr.children[1].dtype)
            expected(v) ==
                IF expr.name = "IsFinite"
                THEN ~floating \/ v \notin {PosInf, NegInf, NaN}
                ELSE floating /\ v \in {PosInf, NegInf}
        IN  /\ ret.status = "ok"
            /\ NumRows(ret.col) = NumRows(child)
            /\ \A i \in 1..NumRows(ret.col) :
                  (floating => child.mask[i]) =>
                      /\ ret.col.mask[i]
                      /\ ret.col.data[i]
                           = (IF expected(child.data[i]) THEN 1 ELSE 0)

(***************************************************************************)
(* SpecTemporal: Microsecond and Nanosecond on a column of timestamps.     *)
(***************************************************************************)
\* the values of a millisecond, microsecond or nanosecond component
SubSecond == {0, 999}

Timestamp(ms, us, ns) == ms * 1000000 + us * 1000 + ns

Timestamps ==
    {Timestamp(ms, us, ns) : ms \in SubSecond, us \in SubSecond,
                             ns \in SubSecond}

TemporalNodes ==
    {TemporalFunction("i32", name, <<>>, <<Col("datetime", "a").node>>) :
        name \in {"Microsecond", "Nanosecond"}}

NextTemporal ==
    \/ ConstructNode(TemporalNodes)
    \/ CallDoEvaluate

SpecTemporal ==
    InitColumns({<<c>> : c \in Columns(Timestamps, MaxIndices)})
    /\ [][NextTemporal]_vars

\* C30: for millisecond, microsecond and nanosecond components in
\* [0, 999], Microsecond returns ms * 1000 + us and Nanosecond returns
\* ms * 1000000 + us * 1000 + ns, and every product and sum computed on
\* the way, as a 32-bit integer, is the exact value and at most 2^31 - 1.
C30_SubSecond ==
    (pc = "returned" /\ expr.kind = "TemporalFunction") =>
        /\ ret.status = "ok"
        /\ NumRows(ret.col) = NumRows(args[1])
        /\ \A i \in ValidRows(args[1]) :
              \E ms \in SubSecond, us \in SubSecond, ns \in SubSecond :
                 /\ args[1].data[i] = Timestamp(ms, us, ns)
                 /\ ret.col.mask[i]
                 /\ \A k \in 1..Len(ret.steps) :
                       /\ 0 <= ret.steps[k].data[i]
                       /\ ret.steps[k].data[i] <= Int32Max
                 /\ IF expr.name = "Microsecond"
                    THEN /\ ret.steps[1].data[i] = ms * 1000
                         /\ ret.col.data[i] = ms * 1000 + us
                    ELSE /\ ret.steps[1].data[i] = ms * 1000000
                         /\ ret.steps[2].data[i] = us * 1000
                         /\ ret.steps[3].data[i] = ns + ms * 1000000
                         /\ ret.col.data[i]
                              = ms * 1000000 + us * 1000 + ns

\* the nanosecond of a timestamp with every component 999 is 999999999
C30_Witness ==
    /\ pc = "returned"
    /\ expr.name = "Nanosecond"
    /\ args[1] = PlcColumn(<<Timestamp(999, 999, 999)>>, <<TRUE>>)
    /\ ret.col = PlcColumn(<<999999999>>, <<TRUE>>)
    /\ ret.steps[1] = PlcColumn(<<999000000>>, <<TRUE>>)

====
